---- MODULE Spec2Model ----
(***************************************************************************)
(* WhatsApp lead bot: the dispatch and logging pipeline of app.js, in its  *)
(* two revisions.                                                          *)
(*   part_002  combined welcome+catalog revision (cycle guard, no receipts)*)
(*   part_000  read-receipt revision (two passes, no cycle guard)          *)
(* Strings are sequences of one-character strings; a log file is the       *)
(* sequence of its data rows plus the facts about its existence and its    *)
(* last byte.                                                              *)
(***************************************************************************)
EXTENDS Integers, Sequences, FiniteSets, TLC

(***************************************************************************)
(* Strings and phone normalisation                                         *)
(***************************************************************************)
Digits == {"0", "1", "2", "3", "4", "5", "6", "7", "8", "9"}

DigitVal(c) ==
    CASE c = "0" -> 0 [] c = "1" -> 1 [] c = "2" -> 2 [] c = "3" -> 3
      [] c = "4" -> 4 [] c = "5" -> 5 [] c = "6" -> 6 [] c = "7" -> 7
      [] c = "8" -> 8 [] c = "9" -> 9

DigitChr(n) ==
    CASE n = 0 -> "0" [] n = 1 -> "1" [] n = 2 -> "2" [] n = 3 -> "3"
      [] n = 4 -> "4" [] n = 5 -> "5" [] n = 6 -> "6" [] n = 7 -> "7"
      [] n = 8 -> "8" [] n = 9 -> "9"

\* s.substring(n) for a 0-based n
Substring(s, n) == SubSeq(s, n + 1, Len(s))

\* s.startsWith(p)
StartsWith(s, p) == Len(s) >= Len(p) /\ SubSeq(s, 1, Len(p)) = p

\* s.includes(p)
Includes(s, p) ==
    \E i \in 1..(Len(s) - Len(p) + 1) : SubSeq(s, i, i + Len(p) - 1) = p

\* s.trim(): blanks off both ends
RECURSIVE TrimLeft(_)
TrimLeft(s) == IF s # <<>> /\ Head(s) = " " THEN TrimLeft(Tail(s)) ELSE s

RECURSIVE TrimRight(_)
TrimRight(s) ==
    IF s # <<>> /\ s[Len(s)] = " " THEN TrimRight(SubSeq(s, 1, Len(s) - 1)) ELSE s

Trim(s) == TrimRight(TrimLeft(s))

\* s.replace(/[^...]/g, ''): keep the characters of the set keep
Keep(s, keep) == SelectSeq(s, LAMBDA c : c \in keep)

\* the longest prefix of s made of digits
RECURSIVE DigitPrefix(_)
DigitPrefix(s) ==
    IF s # <<>> /\ Head(s) \in Digits THEN <<Head(s)>> \o DigitPrefix(Tail(s)) ELSE <<>>

RECURSIVE StripZeros(_)
StripZeros(s) == IF Len(s) > 1 /\ Head(s) = "0" THEN StripZeros(Tail(s)) ELSE s

RECURSIVE Zeros(_)
Zeros(n) == IF n <= 0 THEN <<>> ELSE <<"0">> \o Zeros(n - 1)

\* the decimal numeral d plus one
RECURSIVE Incr(_)
Incr(d) ==
    IF d = <<>> THEN <<"1">>
    ELSE IF d[Len(d)] = "9" THEN Incr(SubSeq(d, 1, Len(d) - 1)) \o <<"0">>
    ELSE SubSeq(d, 1, Len(d) - 1) \o <<DigitChr(DigitVal(d[Len(d)]) + 1)>>

\* the value of a short decimal numeral (an exponent)
RECURSIVE NumVal(_)
NumVal(d) == IF d = <<>> THEN 0 ELSE 10 * NumVal(SubSeq(d, 1, Len(d) - 1)) + DigitVal(d[Len(d)])

\* the value of an exponent's text: optional sign, digits
SignedVal(s) ==
    IF s # <<>> /\ Head(s) = "-" THEN 0 - NumVal(DigitPrefix(Tail(s)))
    ELSE IF s # <<>> /\ Head(s) = "+" THEN NumVal(DigitPrefix(Tail(s)))
    ELSE NumVal(DigitPrefix(s))

\* the text after the e or E that begins an exponent, if s begins one
ExpText(s) == IF s # <<>> /\ Head(s) \in {"e", "E"} THEN Tail(s) ELSE <<>>

\* parseFloat(s): optional sign, digits, optional fraction, optional exponent.
\* The number is kept as its digits and the place of the decimal point:
\* neg, the integer digits ip, the fraction digits fp, the exponent's text ex.
pfNumber(neg, ip, fp, ex) ==
    [nan |-> ip = <<>> /\ fp = <<>>, neg |-> neg,
     digits |-> ip \o fp, point |-> Len(ip) + SignedVal(ex)]

pfFraction(neg, ip, s) ==
    IF s # <<>> /\ Head(s) = "."
    THEN pfNumber(neg, ip, DigitPrefix(Tail(s)),
                  ExpText(Substring(s, 1 + Len(DigitPrefix(Tail(s))))))
    ELSE pfNumber(neg, ip, <<>>, ExpText(s))

pfInteger(neg, s) == pfFraction(neg, DigitPrefix(s), Substring(s, Len(DigitPrefix(s))))

parseFloat(s) ==
    pfInteger(s # <<>> /\ Head(s) = "-",
              IF s # <<>> /\ Head(s) \in {"+", "-"} THEN Tail(s) ELSE s)

\* x.toFixed(0): the nearest integer as a decimal numeral
Whole(d, p) ==
    IF p >= Len(d) THEN d \o Zeros(p - Len(d))
    ELSE IF p <= 0 THEN <<"0">> ELSE SubSeq(d, 1, p)

RoundsUp(d, p) == p >= 0 /\ p < Len(d) /\ DigitVal(d[p + 1]) >= 5

Magnitude(d, p) == StripZeros(IF RoundsUp(d, p) THEN Incr(Whole(d, p)) ELSE Whole(d, p))

WithSign(neg, mag) == IF neg /\ mag # <<"0">> THEN <<"-">> \o mag ELSE mag

toFixed0(x) ==
    IF x.nan THEN <<"N", "a", "N">> ELSE WithSign(x.neg, Magnitude(x.digits, x.point))

\* a mutant of the repair that leaves every text as it is
SciRepair_none(t) == t

\* the scientific-notation repair both revisions begin with
SciRepair(t) ==
    IF Includes(t, <<"E", "+">>) \/ Includes(t, <<"e", "+">>)
    THEN toFixed0(parseFloat(t)) ELSE t

\* part_002's normalizePhone: the rules for Indian numbers, on the digits
CountryRules2(digits) ==
    IF Len(digits) = 10 THEN <<"9", "1">> \o digits
    ELSE IF Len(digits) = 12 /\ StartsWith(digits, <<"9", "1">>) THEN digits
    ELSE IF Len(digits) = 11 /\ StartsWith(digits, <<"0">>)
         THEN <<"9", "1">> \o Substring(digits, 1)
    ELSE digits

DropPlus(kept) == IF StartsWith(kept, <<"+">>) THEN Substring(kept, 1) ELSE kept

normalizePhone2(phone) ==
    CountryRules2(DropPlus(Keep(SciRepair(Trim(phone)), Digits \cup {"+"})))

\* part_000's normalizePhone: the rules, on the digits
CountryRules0(digits) ==
    IF Len(digits) = 10 THEN <<"9", "1">> \o digits
    ELSE IF StartsWith(digits, <<"0">>)
         THEN IF Len(digits) = 11 THEN <<"9", "1">> \o Substring(digits, 1)
              ELSE Substring(digits, 1)
    ELSE digits

normalizePhone0(phone) == CountryRules0(Keep(SciRepair(Trim(phone)), Digits))

(***************************************************************************)
(* Inputs                                                                  *)
(***************************************************************************)
\* one subscriber written in two ways, and a second subscriber
PhoneP  == <<"9", "8", "7", "6", "5", "4", "3", "2", "1", "0">>
PhoneP0 == <<"0", "9", "8", "7", "6", "5", "4", "3", "2", "1", "0">>
PhoneQ  == <<"9", "1", "9", "1", "2", "3", "4", "5", "6", "7", "8", "9">>

RawPhones == {PhoneP, PhoneP0, PhoneQ}

\* longest lead list of the spreadsheet
MaxLeads == 2

\* processLeads cycles begun in one behaviour
MaxCycles == 2

\* disturbances in one behaviour: failed sends, fetches and writes, session
\* drops, stops and crashes
MaxFaults == 1

\* POST /reset requests in one behaviour
MaxResets == 1

\* processLeads cycles begun in one behaviour over a sheet without rows
MaxIdleCycles == 4

RECURSIVE SeqsUpTo(_, _)
SeqsUpTo(S, n) ==
    IF n = 0 THEN {<<>>}
    ELSE LET shorter == SeqsUpTo(S, n - 1)
         IN  shorter \cup {Append(s, x) : s \in {t \in shorter : Len(t) = n - 1}, x \in S}

\* a lead as fetchLeads returns it (name and capture date play no part in dispatch)
Lead(raw) == [phone |-> raw]

LeadLists == {[j \in 1..Len(s) |-> Lead(s[j])] : s \in SeqsUpTo(RawPhones, MaxLeads)}

\* error messages, as words; a failed send rejects with one of SendErrors
ErrNotReady      == <<"WhatsApp", "client", "not", "ready">>
ErrTimeout       == <<"Evaluation", "failed:", "Timeout">>
ErrNotRegistered == <<"Number", "is", "not", "registered">>
ErrInvalidNumber == <<"Invalid", "number">>
ErrIncorrect     == <<"incorrect", "number">>

SendErrors == {ErrTimeout, ErrNotRegistered, ErrInvalidNumber, ErrIncorrect}

\* String.prototype.toLowerCase, word by word
LowerWord(w) ==
    CASE w = "WhatsApp" -> "whatsapp" [] w = "Evaluation" -> "evaluation"
      [] w = "Timeout" -> "timeout" [] w = "Number" -> "number"
      [] w = "Invalid" -> "invalid" [] OTHER -> w

toLowerCase(msg) == [j \in 1..Len(msg) |-> LowerWord(msg[j])]

\* the two concurrent processLeads invocations the model follows
Procs == {"a", "b"}

(***************************************************************************)
(* State                                                                   *)
(***************************************************************************)
VARIABLES
    sheet,               \* the spreadsheet's lead rows (external)
    mainLog,             \* LOG_FILE: [exists, rows, eol]
    catalogLog,          \* CATALOG_LOG_FILE: [exists, rows, eol]
    status,              \* chat session status
    processing,          \* the start/stop flag
    timerOn,             \* processInterval is armed
    isRunning,           \* processLeads.isRunning (part_002)
    processingLocks,     \* set of normalized phones
    messageSendingLocks, \* set of normalized phones (part_002)
    fileLocks,           \* [mainLog, catalogLog]
    logQueue,            \* [main, catalog, isProcessing, isCatalogProcessing]
    logTask,             \* where the processLogQueue call of each log is suspended
    logEntry,            \* the entry each of them has shifted off its queue
    systemHealth,        \* [consecutiveFailures, isOnline, lastOnlineTime,
                         \*  lastSuccessfulGoogleSheetsCall] (part_002)
    checkPc,             \* the await checkSystemHealth is suspended at (part_002)
    seenNotifications,   \* set of normalized phones (part_000)
    processingSeenStatus,\* set of normalized phones (part_000)
    ackPc,               \* per updateLogWithSeenStatus call: its await (part_000)
    ackLoc,              \* per updateLogWithSeenStatus call: its locals (part_000)
    seenHist,            \* what the receipt handling has done (history)
    clientNew,           \* POST /reset has replaced the client, which has not
                         \* emitted an event yet (part_000)
    pc,                  \* per invocation: the await it is suspended at
    loc,                 \* per invocation: the locals of processLeads and its callee
    cyc,                 \* per invocation: what the cycle has done (history)
    hist                 \* what the process has done (history)

fileVars == <<mainLog, catalogLog>>
ctlVars  == <<status, processing, timerOn>>
lockVars == <<processingLocks, messageSendingLocks>>
logVars  == <<fileLocks, logQueue, logTask, logEntry>>
procVars == <<pc, loc, cyc>>
healthVars == <<systemHealth, checkPc>>
seenVars == <<seenNotifications, processingSeenStatus, ackPc, ackLoc, seenHist,
              clientNew>>

vars == <<sheet, mainLog, catalogLog, status, processing, timerOn, isRunning,
          processingLocks, messageSendingLocks, fileLocks, logQueue, logTask,
          logEntry, systemHealth, checkPc, seenNotifications,
          processingSeenStatus, ackPc, ackLoc, seenHist, clientNew,
          pc, loc, cyc, hist>>

(***************************************************************************)
(* Log files                                                               *)
(***************************************************************************)
Row(phone, st) == [phone |-> phone, status |-> st]

NoEntry == Row(<<>>, "none")

NoFile == [exists |-> FALSE, rows |-> <<>>, eol |-> TRUE]

\* a file that holds the header row and the given data rows
FileOf(rows) == [exists |-> TRUE, rows |-> rows, eol |-> TRUE]

\* the Phone column of the rows csv-parser yields, filtered by status when
\* a status filter is given
LoggedPhones(file, statusFilter) ==
    IF ~file.exists THEN {}
    ELSE {file.rows[j].phone :
            j \in {n \in 1..Len(file.rows) :
                     /\ file.rows[n].phone # <<>>
                     /\ (statusFilter = "" \/ file.rows[n].status = statusFilter)}}

\* a mutant of getSentPhones that counts only the rows with status Sent
getSentPhones2_onlySent(file) ==
    {normalizePhone2(ph) : ph \in LoggedPhones(file, "Sent")}

\* a mutant of getSentPhones that finds no row
getSentPhones2_none(file) == {}

\* part_002: getSentPhones() as every caller uses it, without a status filter
getSentPhones2(file) == {normalizePhone2(ph) : ph \in LoggedPhones(file, "")}

getCatalogSentPhones2(file) == {normalizePhone2(ph) : ph \in LoggedPhones(file, "Sent")}

\* the file after processLogQueue's writes for one entry have succeeded:
\* header when absent, newline repair when the last byte is no newline, the row
AppendRow(file, entry) ==
    [exists |-> TRUE, rows |-> Append(file.rows, entry), eol |-> TRUE]

(***************************************************************************)
(* The logging queue: safeLogMessage and processLogQueue                   *)
(***************************************************************************)
LogState ==
    [queue |-> logQueue, locks |-> fileLocks, task |-> logTask, entry |-> logEntry]

SetLog(s) ==
    /\ logQueue' = s.queue
    /\ fileLocks' = s.locks
    /\ logTask' = s.task
    /\ logEntry' = s.entry

MainStartable(s) == ~s.queue.isProcessing /\ s.queue.main # <<>>

\* a mutant of the catalog section's test with one isProcessing flag for both
\* queues
CatalogStartable_oneFlag(s) ==
    ~s.queue.isCatalogProcessing /\ ~s.queue.isProcessing /\ s.queue.catalog # <<>>

CatalogStartable(s) == ~s.queue.isCatalogProcessing /\ s.queue.catalog # <<>>

\* a mutant of the main section that does not wait for the file lock
StartMain_ignoresLock(s) ==
    [s EXCEPT !.queue.isProcessing = TRUE, !.locks.mainLog = TRUE,
              !.entry.main = Head(s.queue.main),
              !.queue.main = Tail(s.queue.main), !.task.main = "io"]

\* the main section of processLogQueue up to its first await
StartMain(s) ==
    IF s.locks.mainLog
    THEN [s EXCEPT !.queue.isProcessing = TRUE, !.task.main = "wait"]
    ELSE [s EXCEPT !.queue.isProcessing = TRUE, !.locks.mainLog = TRUE,
                   !.entry.main = Head(s.queue.main),
                   !.queue.main = Tail(s.queue.main), !.task.main = "io"]

\* the catalog section of processLogQueue up to its first await
StartCatalog(s) ==
    IF s.locks.catalogLog
    THEN [s EXCEPT !.queue.isCatalogProcessing = TRUE, !.task.catalog = "wait"]
    ELSE [s EXCEPT !.queue.isCatalogProcessing = TRUE, !.locks.catalogLog = TRUE,
                   !.entry.catalog = Head(s.queue.catalog),
                   !.queue.catalog = Tail(s.queue.catalog), !.task.catalog = "io"]

\* a call of processLogQueue, run until it suspends or returns: a call that
\* takes the main section waits there and reaches the catalog section later
processLogQueue(s) ==
    IF MainStartable(s) THEN StartMain(s)
    ELSE IF CatalogStartable(s) THEN StartCatalog(s)
    ELSE s

\* the catalog section, reached by a call whose main section has ended
CatalogSection(s) == IF CatalogStartable(s) THEN StartCatalog(s) ELSE s

Push(s, type, entry) ==
    IF type = "main" THEN [s EXCEPT !.queue.main = Append(@, entry)]
    ELSE [s EXCEPT !.queue.catalog = Append(@, entry)]

\* part_002: safeLogMessage(type, phone, name, status)
safeLogMessage2(s, type, phone, st) ==
    processLogQueue(Push(s, type, Row(normalizePhone2(phone), st)))

\* the end of the main section's try: the finally block, the processLogQueue
\* call it makes, and the rest of the ending call
\* a mutant of the main section's catch that pushes the failed entry at the end
EndMain_requeuesLast(s, requeue) ==
    LET q == IF requeue THEN [s EXCEPT !.queue.main = Append(@, s.entry.main)] ELSE s
        r == [q EXCEPT !.locks.mainLog = FALSE, !.queue.isProcessing = FALSE,
                       !.entry.main = NoEntry, !.task.main = "idle"]
    IN  CatalogSection(processLogQueue(r))

EndMain(s, requeue) ==
    LET q == IF requeue THEN [s EXCEPT !.queue.main = <<s.entry.main>> \o @] ELSE s
        r == [q EXCEPT !.locks.mainLog = FALSE, !.queue.isProcessing = FALSE,
                       !.entry.main = NoEntry, !.task.main = "idle"]
    IN  CatalogSection(processLogQueue(r))

\* a mutant of the catalog section's finally that does not call processLogQueue
EndCatalog_noRestart(s, requeue) ==
    LET q == IF requeue THEN [s EXCEPT !.queue.catalog = <<s.entry.catalog>> \o @] ELSE s
    IN  [q EXCEPT !.locks.catalogLog = FALSE, !.queue.isCatalogProcessing = FALSE,
                  !.entry.catalog = NoEntry, !.task.catalog = "idle"]

EndCatalog(s, requeue) ==
    LET q == IF requeue THEN [s EXCEPT !.queue.catalog = <<s.entry.catalog>> \o @] ELSE s
        r == [q EXCEPT !.locks.catalogLog = FALSE, !.queue.isCatalogProcessing = FALSE,
                       !.entry.catalog = NoEntry, !.task.catalog = "idle"]
    IN  processLogQueue(r)

\* no entry is queued or being written
LogIdle ==
    /\ logQueue.main = <<>> /\ logQueue.catalog = <<>>
    /\ logTask.main = "idle" /\ logTask.catalog = "idle"

(***************************************************************************)
(* Initial state: a process that has just booted (app.listen's callback    *)
(* has run initializeWhatsApp), over the files an earlier run left behind  *)
(***************************************************************************)
KeyP == normalizePhone2(PhoneP)
KeyQ == normalizePhone2(PhoneQ)

Keys == {normalizePhone2(r) : r \in RawPhones}

\* the main logs a booting process may find
BootLogs == {NoFile, FileOf(<<Row(KeyP, "Sent")>>), FileOf(<<Row(KeyP, "Invalid")>>)}

NoLocals ==
    [leads |-> <<>>, i |-> 0, sentPhones |-> {}, catalogSentPhones |-> {},
     welcomeAlreadySent |-> FALSE, catalogAlreadySent |-> FALSE,
     welcomeSent |-> FALSE, pass |-> 0]

\* history of one cycle: its number, the rows of the main log when it loaded
\* its sent set, the phones it dispatched, the phones it dispatched while the
\* session was not ready, the phones it called sendMessage for (welcome,
\* catalog), the leads whose dispatch failed and the last error, how it ended,
\* whether each of its dispatches left a row in the main log, and what was
\* true of the cycle before it when it began, and what became of the admin
\* alert of its fetch (none, skipped, tried, sent, failed)
NoCycle ==
    [n |-> 0, fetched |-> FALSE, rows0 |-> <<>>, disp |-> {}, offline |-> {},
     triedW |-> {}, triedC |-> {}, failed |-> {}, error |-> <<>>,
     result |-> "none", clean |-> TRUE, afterComplete |-> FALSE,
     afterClean |-> FALSE, fresh |-> FALSE, alert |-> "none"]

\* the two log files and their sections of processLogQueue
LogTypes == {"main", "catalog"}

\* what is recorded of the entry a section of processLogQueue wrote last: the
\* file as it found it, the entry, whether its newline check could not read
\* the file, and whether its line has been appended
NoWrite == [before |-> NoFile, entry |-> NoEntry, blind |-> FALSE, done |-> FALSE]

\* what is recorded of a log queue since the process started: the entries
\* safeLogMessage pushed, in order; whether an entry was put back after a
\* failed write while another entry waited in the queue; whether a line was
\* appended after a last byte that is no newline
NoLogRun == [enqueued |-> <<>>, requeued |-> FALSE, merged |-> FALSE]

NoHistory ==
    [faults |-> 0, skipped |-> FALSE, cycles |-> 0, crashes |-> 0,
     sinceBoot |-> 0,
     welcomeOk |-> [k \in Keys |-> 0], catalogOk |-> [k \in Keys |-> 0],
     welcomeOkBoot |-> {}, resent |-> {},
     lastComplete |-> FALSE, lastClean |-> FALSE, midStop |-> FALSE,
     lastWrite |-> [t \in LogTypes |-> NoWrite], recovery |-> "none",
     logRun |-> [t \in LogTypes |-> NoLogRun], failRun |-> 0]

\* the updateLogWithSeenStatus calls that may be in flight together
Acks == {"r1", "r2"}

\* the locals of an updateLogWithSeenStatus call that has not begun: its
\* normalized phone, the rows it will write, alreadySeen and customerName
\* (set or not); and its history: whether, when it began, a call for the same
\* phone was in flight or had rewritten a row, and whether one had rewritten a
\* row when it took the file lock
NoAck ==
    [phone |-> <<>>, newRows |-> <<>>, alreadySeen |-> FALSE, customerName |-> FALSE,
     later |-> FALSE, second |-> FALSE]

\* history of the receipt handling: per phone the number of rows rewritten to
\* Seen, the number of POST /reset requests, and per phone the number of
\* sendNotification calls
NoSeenHistory ==
    [rewrites |-> [k \in Keys |-> 0], resets |-> 0, notifications |-> [k \in Keys |-> 0]]

\* systemHealth as the module creates it; a time is modelled by whether it is set
NoHealth ==
    [consecutiveFailures |-> 0, isOnline |-> FALSE, lastOnlineTime |-> FALSE,
     lastSuccessfulGoogleSheetsCall |-> FALSE]

InitMemory ==
    /\ status = "disconnected"
    /\ processing = FALSE
    /\ isRunning = FALSE
    /\ processingLocks = {}
    /\ messageSendingLocks = {}
    /\ fileLocks = [mainLog |-> FALSE, catalogLog |-> FALSE]
    /\ logQueue = [main |-> <<>>, catalog |-> <<>>,
                   isProcessing |-> FALSE, isCatalogProcessing |-> FALSE]
    /\ logTask = [main |-> "idle", catalog |-> "idle"]
    /\ logEntry = [main |-> NoEntry, catalog |-> NoEntry]
    /\ systemHealth = NoHealth
    /\ checkPc = "idle"
    /\ seenNotifications = {}
    /\ processingSeenStatus = {}
    /\ ackPc = [u \in Acks |-> "idle"]
    /\ ackLoc = [u \in Acks |-> NoAck]
    /\ seenHist = NoSeenHistory
    /\ clientNew = FALSE
    /\ pc = [p \in Procs |-> "idle"]
    /\ hist = NoHistory

\* part_002: the timer is armed by POST /start
Init ==
    /\ sheet \in LeadLists
    /\ mainLog \in BootLogs
    /\ catalogLog = FileOf(<<>>)
    /\ InitMemory
    /\ timerOn = FALSE
    /\ loc = [p \in Procs |-> NoLocals]
    /\ cyc = [p \in Procs |-> NoCycle]

(***************************************************************************)
(* part_002: processLeads and sendWelcomeWithCatalog                       *)
(***************************************************************************)
Fault(h) == [h EXCEPT !.faults = @ + 1]

CanFault == hist.faults < MaxFaults

\* a mutant of the failure handler's choice that knows one phrase only
FailureStatus_notRegisteredOnly(msg) ==
    IF Includes(toLowerCase(msg), <<"not", "registered">>) THEN "Invalid" ELSE "Failed"

\* the failure handler's choice of the status it logs
FailureStatus(msg) ==
    LET errorMsg == toLowerCase(msg)
    IN  IF \/ Includes(errorMsg, <<"not", "registered">>)
           \/ Includes(errorMsg, <<"invalid", "number">>)
           \/ Includes(errorMsg, <<"incorrect", "number">>)
        THEN "Invalid" ELSE "Failed"

\* the first index from i on that the loop does not skip
RECURSIVE NextLead2(_, _, _, _)
NextLead2(leads, i, locks, sent) ==
    IF i > Len(leads) THEN i
    ELSE IF normalizePhone2(leads[i].phone) \in (locks \cup sent)
         THEN NextLead2(leads, i + 1, locks, sent)
         ELSE i

\* the slot a new invocation runs in
FreeProc == IF pc["a"] = "idle" THEN "a" ELSE "b"

\* the end of processLeads: the loop is left and the finally block runs
Finish2(p, l, result) ==
    /\ pc' = [pc EXCEPT ![p] = "idle"]
    /\ loc' = [loc EXCEPT ![p] = l]
    /\ cyc' = [cyc EXCEPT ![p].result = result]
    /\ isRunning' = FALSE
    /\ hist' = [hist EXCEPT !.lastComplete = (result = "complete" /\ cyc[p].fetched),
                            !.lastClean = cyc[p].clean]
    /\ UNCHANGED <<lockVars, logVars>>

\* a mutant of the catch block that leaves the loop after logging the failure
Handler2_endsCycle(p, l, j, msg, mlocks, c, h) ==
    LET key == normalizePhone2(l.leads[j].phone)
    IN  /\ SetLog(safeLogMessage2(LogState, "main", l.leads[j].phone, FailureStatus(msg)))
        /\ loc' = [loc EXCEPT ![p] = [l EXCEPT !.i = j, !.sentPhones = @ \cup {key}]]
        /\ processingLocks' = processingLocks \ {key}
        /\ messageSendingLocks' = mlocks
        /\ pc' = [pc EXCEPT ![p] = "idle"]
        /\ cyc' = [cyc EXCEPT ![p] = [c EXCEPT !.failed = @ \cup {j}, !.error = msg,
                                                !.result = "complete"]]
        /\ hist' = h
        /\ isRunning' = FALSE

\* the catch block of the loop body and the finally after it, for the error msg
\* raised by the dispatch of lead j; mlocks is messageSendingLocks as the
\* callee's finally left it
Handler2(p, l, j, msg, mlocks, c, h) ==
    LET key == normalizePhone2(l.leads[j].phone)
        st == FailureStatus(msg)
    IN  /\ SetLog(safeLogMessage2(LogState, "main", l.leads[j].phone, st))
        /\ loc' = [loc EXCEPT ![p] = [l EXCEPT !.i = j, !.sentPhones = @ \cup {key}]]
        /\ processingLocks' = processingLocks \ {key}
        /\ messageSendingLocks' = mlocks
        /\ pc' = [pc EXCEPT ![p] = "delay"]
        /\ cyc' = [cyc EXCEPT ![p] = [c EXCEPT !.failed = @ \cup {j}, !.error = msg]]
        /\ hist' = h
        /\ UNCHANGED isRunning

\* a mutant of the loop body that does not add the phone to its sentPhones
Return2_noLocalAdd(p, l, c, h, logs) ==
    LET key == normalizePhone2(l.leads[l.i].phone)
    IN  /\ SetLog(logs)
        /\ loc' = [loc EXCEPT ![p] = l]
        /\ processingLocks' = processingLocks \ {key}
        /\ messageSendingLocks' = messageSendingLocks \ {key}
        /\ pc' = [pc EXCEPT ![p] = "delay"]
        /\ cyc' = [cyc EXCEPT ![p] = c]
        /\ hist' = h
        /\ UNCHANGED isRunning

\* sendWelcomeWithCatalog returns normally: its finally, then the rest of the
\* loop body's try and its finally
Return2(p, l, c, h, logs) ==
    LET key == normalizePhone2(l.leads[l.i].phone)
    IN  /\ SetLog(logs)
        /\ loc' = [loc EXCEPT ![p] = [l EXCEPT !.sentPhones = @ \cup {key}]]
        /\ processingLocks' = processingLocks \ {key}
        /\ messageSendingLocks' = messageSendingLocks \ {key}
        /\ pc' = [pc EXCEPT ![p] = "delay"]
        /\ cyc' = [cyc EXCEPT ![p] = c]
        /\ hist' = h
        /\ UNCHANGED isRunning

\* the top of the for loop with lead index i, run up to the next await: the
\* processing check, the two skips, the lock, and the call of
\* sendWelcomeWithCatalog up to its own first await
LoopTop2(p, i, l) ==
    LET j == NextLead2(l.leads, i, processingLocks, l.sentPhones)
        key == normalizePhone2(l.leads[j].phone)
    IN  IF i > Len(l.leads) THEN Finish2(p, l, "complete")
        ELSE IF ~processing THEN Finish2(p, l, "stopped")
        ELSE IF j > Len(l.leads) THEN Finish2(p, [l EXCEPT !.i = j], "complete")
        ELSE IF status # "ready"
             THEN Handler2(p, l, j, ErrNotReady, messageSendingLocks,
                           [cyc[p] EXCEPT !.disp = @ \cup {key},
                                          !.offline = @ \cup {key}],
                           hist)
        ELSE IF key \in messageSendingLocks
             THEN Return2(p, [l EXCEPT !.i = j],
                          [cyc[p] EXCEPT !.disp = @ \cup {key}, !.clean = FALSE],
                          hist, LogState)
        ELSE /\ processingLocks' = processingLocks \cup {key}
             /\ messageSendingLocks' = messageSendingLocks \cup {key}
             /\ pc' = [pc EXCEPT ![p] = "dsSent"]
             /\ loc' = [loc EXCEPT ![p] =
                          [l EXCEPT !.i = j, !.welcomeAlreadySent = FALSE,
                                    !.catalogAlreadySent = FALSE, !.welcomeSent = FALSE]]
             /\ cyc' = [cyc EXCEPT ![p].disp = @ \cup {key}]
             /\ UNCHANGED <<isRunning, hist, logVars>>

\* a mutant of processLeads without the isRunning guard
processLeads2_noGuard(h) ==
    /\ isRunning' = TRUE
    /\ pc' = [pc EXCEPT ![FreeProc] = "fetch"]
    /\ loc' = [loc EXCEPT ![FreeProc] = NoLocals]
    /\ cyc' = [cyc EXCEPT ![FreeProc] = [NoCycle EXCEPT !.n = h.cycles + 1]]
    /\ hist' = [h EXCEPT !.cycles = @ + 1, !.sinceBoot = @ + 1]

\* processLeads from its call to its first await (fetchLeads); h is the history
\* as the caller leaves it
processLeads2(h) ==
    IF isRunning
    THEN /\ hist' = [h EXCEPT !.skipped = TRUE]
         /\ UNCHANGED <<isRunning, procVars>>
    ELSE IF status # "ready"
    THEN /\ hist' = h
         /\ UNCHANGED <<isRunning, procVars>>
    ELSE /\ isRunning' = TRUE
         /\ pc' = [pc EXCEPT ![FreeProc] = "fetch"]
         /\ loc' = [loc EXCEPT ![FreeProc] = NoLocals]
         /\ cyc' = [cyc EXCEPT ![FreeProc] =
                      [NoCycle EXCEPT !.n = h.cycles + 1,
                                      !.afterComplete = h.lastComplete /\ LogIdle,
                                      !.afterClean = h.lastClean,
                                      !.fresh = (h.sinceBoot = 0)]]
         /\ hist' = [h EXCEPT !.cycles = @ + 1, !.sinceBoot = @ + 1,
                              !.lastComplete = FALSE, !.lastClean = FALSE]

\* fetchLeads returns the rows of the sheet
FetchOk2(p) ==
    /\ pc[p] = "fetch"
    /\ pc' = [pc EXCEPT ![p] = "loadSent"]
    /\ loc' = [loc EXCEPT ![p].leads = sheet]
    /\ cyc' = [cyc EXCEPT ![p].fetched = TRUE]
    /\ systemHealth' = [systemHealth EXCEPT !.consecutiveFailures = 0,
                                            !.lastSuccessfulGoogleSheetsCall = TRUE]
    /\ hist' = [hist EXCEPT !.failRun = 0]
    /\ UNCHANGED <<sheet, fileVars, ctlVars, isRunning, lockVars, logVars, checkPc, seenVars>>

\* the number of consecutive failures from which fetchLeads alerts the admin
AlertThreshold == 3

\* a mutant of the alert test that fires at the threshold only
AlertDue_atThresholdOnly(n) == n = AlertThreshold

\* fetchLeads (catch): if (systemHealth.consecutiveFailures >= 3)
AlertDue(n) == n >= AlertThreshold

\* a fetch may fail: at no cost over a sheet without rows, where a cycle does
\* nothing else; as one of the faults otherwise
FetchMayFail == sheet = <<>> \/ CanFault

\* a mutant of the catch block that returns the rows of the sheet all the same
FetchFail2_returnsRows(p) ==
    /\ pc[p] = "fetch"
    /\ FetchMayFail
    /\ pc' = [pc EXCEPT ![p] = "loadSent"]
    /\ loc' = [loc EXCEPT ![p].leads = sheet]
    /\ systemHealth' = [systemHealth EXCEPT !.consecutiveFailures = @ + 1]
    /\ hist' = IF sheet = <<>> THEN hist ELSE Fault(hist)
    /\ UNCHANGED <<sheet, fileVars, ctlVars, isRunning, lockVars, logVars, cyc, checkPc, seenVars>>

\* fetchLeads catches a spreadsheet error: the counter grows, sendSystemAlert is
\* called when the alert is due (it returns at once unless the session is
\* ready, and otherwise awaits client.sendMessage), and no lead is returned
FetchFail2(p) ==
    LET n == systemHealth.consecutiveFailures + 1
    IN  /\ pc[p] = "fetch"
        /\ FetchMayFail
        /\ systemHealth' = [systemHealth EXCEPT !.consecutiveFailures = n]
        /\ loc' = [loc EXCEPT ![p].leads = <<>>]
        /\ IF ~AlertDue(n)
           THEN pc' = [pc EXCEPT ![p] = "loadSent"] /\ cyc' = cyc
           ELSE IF status # "ready"
           THEN /\ pc' = [pc EXCEPT ![p] = "loadSent"]
                /\ cyc' = [cyc EXCEPT ![p].alert = "skipped"]
           ELSE /\ pc' = [pc EXCEPT ![p] = "alert"]
                /\ cyc' = [cyc EXCEPT ![p].alert = "tried"]
        /\ hist' = [(IF sheet = <<>> THEN hist ELSE Fault(hist)) EXCEPT !.failRun = @ + 1]
        /\ UNCHANGED <<sheet, fileVars, ctlVars, isRunning, lockVars, logVars, checkPc, seenVars>>

\* sendSystemAlert: client.sendMessage to the admin resolves; fetchLeads returns
AlertOk2(p) ==
    /\ pc[p] = "alert"
    /\ status = "ready"
    /\ pc' = [pc EXCEPT ![p] = "loadSent"]
    /\ cyc' = [cyc EXCEPT ![p].alert = "sent"]
    /\ UNCHANGED <<sheet, fileVars, ctlVars, isRunning, lockVars, logVars,
                   healthVars, loc, hist, seenVars>>

\* a mutant of sendSystemAlert that lets the error of client.sendMessage out:
\* fetchLeads rejects and processLeads ends in its catch block
AlertFail2_throws(p) ==
    /\ pc[p] = "alert"
    /\ status # "ready" \/ CanFault
    /\ Finish2(p, loc[p], "error")
    /\ UNCHANGED <<sheet, fileVars, ctlVars, healthVars, seenVars>>

\* sendSystemAlert: client.sendMessage rejects and the error is swallowed
AlertFail2(p) ==
    /\ pc[p] = "alert"
    /\ status # "ready" \/ CanFault
    /\ pc' = [pc EXCEPT ![p] = "loadSent"]
    /\ cyc' = [cyc EXCEPT ![p].alert = "failed"]
    /\ hist' = IF status = "ready" THEN Fault(hist) ELSE hist
    /\ UNCHANGED <<sheet, fileVars, ctlVars, isRunning, lockVars, logVars,
                   healthVars, loc, seenVars>>

\* const sentPhones = await getSentPhones()
LoadSent2(p) ==
    /\ pc[p] = "loadSent"
    /\ pc' = [pc EXCEPT ![p] = "loadCat"]
    /\ loc' = [loc EXCEPT ![p].sentPhones = getSentPhones2(mainLog)]
    /\ cyc' = [cyc EXCEPT ![p].rows0 = mainLog.rows]
    /\ UNCHANGED <<sheet, fileVars, ctlVars, isRunning, lockVars, logVars,
                   healthVars, hist, seenVars>>

\* const catalogSentPhones = await getCatalogSentPhones(), then the loop
LoadCat2(p) ==
    /\ pc[p] = "loadCat"
    /\ LoopTop2(p, 1, [loc[p] EXCEPT !.catalogSentPhones = getCatalogSentPhones2(catalogLog)])
    /\ UNCHANGED <<sheet, fileVars, ctlVars, healthVars, seenVars>>

\* sendWelcomeWithCatalog: const sentPhones = await getSentPhones()
DsSent2(p) ==
    /\ pc[p] = "dsSent"
    /\ pc' = [pc EXCEPT ![p] = "dsCat"]
    /\ loc' = [loc EXCEPT ![p].welcomeAlreadySent =
                 normalizePhone2(loc[p].leads[loc[p].i].phone) \in getSentPhones2(mainLog)]
    /\ UNCHANGED <<sheet, fileVars, ctlVars, isRunning, lockVars, logVars,
                   healthVars, cyc, hist, seenVars>>

\* sendWelcomeWithCatalog: const catalogSentPhones = await getCatalogSentPhones(),
\* then up to the welcome send or the wait that replaces it
DsCat2(p) ==
    LET key == normalizePhone2(loc[p].leads[loc[p].i].phone)
    IN  /\ pc[p] = "dsCat"
        /\ loc' = [loc EXCEPT ![p].catalogAlreadySent =
                     key \in getCatalogSentPhones2(catalogLog)]
        /\ IF loc[p].welcomeAlreadySent
           THEN pc' = [pc EXCEPT ![p] = "pause"] /\ cyc' = cyc
           ELSE /\ pc' = [pc EXCEPT ![p] = "wSend"]
                /\ cyc' = [cyc EXCEPT ![p].triedW = @ \cup {key}]
        /\ UNCHANGED <<sheet, fileVars, ctlVars, isRunning, lockVars, logVars,
                       healthVars, hist, seenVars>>

\* a catalog half that does not look at catalogAlreadySent
CatalogPart2_always(p, l, c, h, logs) ==
    /\ pc' = [pc EXCEPT ![p] = "cSend"]
    /\ loc' = [loc EXCEPT ![p] = l]
    /\ cyc' = [cyc EXCEPT ![p] =
                 [c EXCEPT !.triedC = @ \cup {normalizePhone2(l.leads[l.i].phone)}]]
    /\ hist' = h
    /\ SetLog(logs)
    /\ UNCHANGED <<isRunning, lockVars>>

\* the catalog half of sendWelcomeWithCatalog up to its send, or to the return
CatalogPart2(p, l, c, h, logs) ==
    LET key == normalizePhone2(l.leads[l.i].phone)
    IN  IF ~l.catalogAlreadySent
        THEN /\ pc' = [pc EXCEPT ![p] = "cSend"]
             /\ loc' = [loc EXCEPT ![p] = l]
             /\ cyc' = [cyc EXCEPT ![p] = [c EXCEPT !.triedC = @ \cup {key}]]
             /\ hist' = h
             /\ SetLog(logs)
             /\ UNCHANGED <<isRunning, lockVars>>
        ELSE Return2(p, l,
                     [c EXCEPT !.clean = @ /\ (l.welcomeAlreadySent \/ l.welcomeSent)],
                     h, logs)

\* the welcome message is delivered: it is logged and the 3 s wait begins
WelcomeOk2(p) ==
    LET key == normalizePhone2(loc[p].leads[loc[p].i].phone)
    IN  /\ pc[p] = "wSend"
        /\ status = "ready"
        /\ pc' = [pc EXCEPT ![p] = "pause"]
        /\ loc' = [loc EXCEPT ![p].welcomeSent = TRUE]
        /\ SetLog(safeLogMessage2(LogState, "main", key, "Sent"))
        /\ hist' = [hist EXCEPT !.welcomeOk[key] = @ + 1,
                                !.resent = IF key \in hist.welcomeOkBoot
                                           THEN @ \cup {key} ELSE @]
        /\ UNCHANGED <<sheet, fileVars, ctlVars, isRunning, lockVars,
                       healthVars, cyc, seenVars>>

\* the welcome send rejects: the error is swallowed and the catalog is tried
WelcomeFail2(p) ==
    /\ pc[p] = "wSend"
    /\ status # "ready" \/ CanFault
    /\ CatalogPart2(p, loc[p], cyc[p],
                    IF status = "ready" THEN Fault(hist) ELSE hist, LogState)
    /\ UNCHANGED <<sheet, fileVars, ctlVars, healthVars, seenVars>>

\* the wait after the welcome (3 s) or instead of it (1 s) is over
Pause2(p) ==
    /\ pc[p] = "pause"
    /\ CatalogPart2(p, loc[p], cyc[p], hist, LogState)
    /\ UNCHANGED <<sheet, fileVars, ctlVars, healthVars, seenVars>>

\* the catalog is delivered and logged; sendWelcomeWithCatalog returns
CatalogOk2(p) ==
    LET key == normalizePhone2(loc[p].leads[loc[p].i].phone)
    IN  /\ pc[p] = "cSend"
        /\ status = "ready"
        /\ Return2(p, loc[p],
                   [cyc[p] EXCEPT !.clean = @ /\ (loc[p].welcomeAlreadySent
                                                   \/ loc[p].welcomeSent)],
                   [hist EXCEPT !.catalogOk[key] = @ + 1],
                   safeLogMessage2(LogState, "catalog", key, "Sent"))
        /\ UNCHANGED <<sheet, fileVars, ctlVars, healthVars, seenVars>>

\* the catalog send rejects: the error is rethrown to processLeads
CatalogFail2(p, msg) ==
    LET key == normalizePhone2(loc[p].leads[loc[p].i].phone)
    IN  /\ pc[p] = "cSend"
        /\ status # "ready" \/ CanFault
        /\ Handler2(p, loc[p], loc[p].i, msg, messageSendingLocks \ {key}, cyc[p],
                    IF status = "ready" THEN Fault(hist) ELSE hist)
        /\ UNCHANGED <<sheet, fileVars, ctlVars, healthVars, seenVars>>

\* the SEND_DELAY wait is over: the processing check, then the next lead
Delay2(p) ==
    /\ pc[p] = "delay"
    /\ IF ~processing
       THEN Finish2(p, loc[p],
                    IF loc[p].i >= Len(loc[p].leads) THEN "complete" ELSE "stopped")
       ELSE LoopTop2(p, loc[p].i + 1, loc[p])
    /\ UNCHANGED <<sheet, fileVars, ctlVars, healthVars, seenVars>>

(***************************************************************************)
(* The log writers: the part of processLogQueue after its first await      *)
(***************************************************************************)
\* the file writes of the main section succeed
WriteMain ==
    /\ logTask.main = "io"
    /\ mainLog' = AppendRow(mainLog, logEntry.main)
    /\ SetLog(EndMain(LogState, FALSE))
    /\ UNCHANGED <<sheet, catalogLog, ctlVars, isRunning, lockVars,
                   healthVars, procVars, hist, seenVars>>

\* a file write of the main section throws: the entry goes back to the head
WriteMainFail ==
    /\ logTask.main = "io"
    /\ CanFault
    /\ SetLog(EndMain(LogState, TRUE))
    /\ hist' = Fault(hist)
    /\ UNCHANGED <<sheet, fileVars, ctlVars, isRunning, lockVars,
                   healthVars, procVars, seenVars>>

WriteCatalog ==
    /\ logTask.catalog = "io"
    /\ catalogLog' = AppendRow(catalogLog, logEntry.catalog)
    /\ SetLog(EndCatalog(LogState, FALSE))
    /\ UNCHANGED <<sheet, mainLog, ctlVars, isRunning, lockVars,
                   healthVars, procVars, hist, seenVars>>

WriteCatalogFail ==
    /\ logTask.catalog = "io"
    /\ CanFault
    /\ SetLog(EndCatalog(LogState, TRUE))
    /\ hist' = Fault(hist)
    /\ UNCHANGED <<sheet, fileVars, ctlVars, isRunning, lockVars,
                   healthVars, procVars, seenVars>>

(***************************************************************************)
(* The control surface, the timer and the chat session's events            *)
(***************************************************************************)
\* a further cycle may begin (an invocation that is turned away begins none);
\* over a sheet without rows, where a cycle fetches and ends, more may
CanInvoke ==
    isRunning \/ hist.cycles < (IF sheet = <<>> THEN MaxIdleCycles ELSE MaxCycles)

\* part_002: POST /start
Start2 ==
    /\ ~processing
    /\ status = "ready"
    /\ CanInvoke
    /\ processing' = TRUE
    /\ processLeads2(hist)
    /\ timerOn' = TRUE
    /\ UNCHANGED <<sheet, fileVars, status, lockVars, logVars, healthVars, seenVars>>

\* the cycle of p is inside sendWelcomeWithCatalog
MidDispatch(p) == pc[p] \in {"dsSent", "dsCat", "wSend", "pause", "cSend"}

\* a mutant of POST /stop that ends the cycle in flight where it stands
Stop_abortsCycle ==
    /\ processing
    /\ CanFault
    /\ processing' = FALSE
    /\ timerOn' = FALSE
    /\ hist' = Fault(hist)
    /\ pc' = [p \in Procs |-> "idle"]
    /\ isRunning' = FALSE
    /\ UNCHANGED <<sheet, fileVars, status, lockVars, logVars, healthVars,
                   loc, cyc, seenVars>>

\* POST /stop
Stop ==
    /\ processing
    /\ CanFault
    /\ processing' = FALSE
    /\ timerOn' = FALSE
    /\ hist' = [Fault(hist) EXCEPT !.midStop = \E p \in Procs : MidDispatch(p)]
    /\ UNCHANGED <<sheet, fileVars, status, isRunning, lockVars, logVars,
                   healthVars, procVars, seenVars>>

\* part_002: the setInterval callback of startProcessingLoop
Tick2 ==
    /\ timerOn
    /\ processing /\ status = "ready"
    /\ CanInvoke
    /\ processLeads2(hist)
    /\ UNCHANGED <<sheet, fileVars, ctlVars, lockVars, logVars, healthVars, seenVars>>

\* client.on('qr')
OnQr ==
    /\ status = "disconnected"
    /\ status' = "qr_pending"
    /\ UNCHANGED <<sheet, fileVars, processing, timerOn, isRunning, lockVars, logVars,
                   healthVars, procVars, hist, seenVars>>

\* client.on('authenticated')
OnAuthenticated ==
    /\ status \in {"disconnected", "qr_pending"}
    /\ status' = "authenticated"
    /\ UNCHANGED <<sheet, fileVars, processing, timerOn, isRunning, lockVars, logVars,
                   healthVars, procVars, hist, seenVars>>

\* client.on('ready')
OnReady ==
    /\ status = "authenticated"
    /\ status' = "ready"
    /\ UNCHANGED <<sheet, fileVars, processing, timerOn, isRunning, lockVars, logVars,
                   healthVars, procVars, hist, seenVars>>

\* client.on('disconnected')
OnDisconnected ==
    /\ status = "ready"
    /\ CanFault
    /\ status' = "disconnected"
    /\ hist' = [Fault(hist) EXCEPT !.recovery = "due"]
    /\ UNCHANGED <<sheet, fileVars, processing, timerOn, isRunning, lockVars, logVars,
                   healthVars, procVars, seenVars>>

\* the process dies and is started again: the files stay, the memory is new;
\* timer is whether the boot arms the timer, l and c the locals and the history
\* of an invocation that has not begun
Reboot(timer, l, c) ==
    /\ CanFault
    /\ status' = "disconnected"
    /\ processing' = FALSE
    /\ timerOn' = timer
    /\ isRunning' = FALSE
    /\ processingLocks' = {}
    /\ messageSendingLocks' = {}
    /\ fileLocks' = [mainLog |-> FALSE, catalogLog |-> FALSE]
    /\ logQueue' = [main |-> <<>>, catalog |-> <<>>,
                    isProcessing |-> FALSE, isCatalogProcessing |-> FALSE]
    /\ logTask' = [main |-> "idle", catalog |-> "idle"]
    /\ logEntry' = [main |-> NoEntry, catalog |-> NoEntry]
    /\ systemHealth' = NoHealth
    /\ checkPc' = "idle"
    /\ pc' = [p \in Procs |-> "idle"]
    /\ loc' = [p \in Procs |-> l]
    /\ cyc' = [p \in Procs |-> c]
    /\ hist' = [Fault(hist) EXCEPT
                  !.crashes = @ + 1, !.sinceBoot = 0,
                  !.welcomeOkBoot = {k \in Keys : hist.welcomeOk[k] > 0},
                  !.lastComplete = @ /\ LogIdle, !.recovery = "none",
                  !.logRun = [t \in LogTypes |-> NoLogRun], !.failRun = 0]
    /\ seenNotifications' = {}
    /\ processingSeenStatus' = {}
    /\ ackPc' = [u \in Acks |-> "idle"]
    /\ ackLoc' = [u \in Acks |-> NoAck]
    /\ UNCHANGED seenHist
    /\ clientNew' = FALSE
    /\ UNCHANGED <<sheet, fileVars>>

\* part_002: crash and restart
Crash == Reboot(FALSE, NoLocals, NoCycle)

Next ==
    \/ Start2 \/ Stop \/ Tick2
    \/ OnQr \/ OnAuthenticated \/ OnReady \/ OnDisconnected
    \/ Crash
    \/ WriteMain \/ WriteMainFail \/ WriteCatalog \/ WriteCatalogFail
    \/ \E p \in Procs :
         \/ FetchOk2(p) \/ FetchFail2(p) \/ AlertOk2(p) \/ AlertFail2(p)
         \/ LoadSent2(p) \/ LoadCat2(p)
         \/ DsSent2(p) \/ DsCat2(p) \/ WelcomeOk2(p) \/ WelcomeFail2(p)
         \/ Pause2(p) \/ CatalogOk2(p) \/ Delay2(p)
         \/ \E msg \in SendErrors : CatalogFail2(p, msg)

\* part_002
Spec == Init /\ [][Next]_vars


(***************************************************************************)
(* part_002: checkSystemHealth. No code of part_002 calls it; the          *)
(* specification below adds a caller that may run it at any moment, one    *)
(* call at a time.                                                         *)
(***************************************************************************)
\* sendSystemAlert and sendRecoveryNotification up to their await: where the
\* caller is suspended if client.sendMessage is called (the session is ready),
\* and where it is after their immediate return otherwise
sendSystemAlert(sending, returned) == IF status = "ready" THEN sending ELSE returned

\* the third test of checkSystemHealth: more than 30 minutes since the last
\* successful fetch (late says whether that long has passed)
SheetsCheck(h, late) ==
    IF h.lastSuccessfulGoogleSheetsCall /\ late
    THEN sendSystemAlert("sheetsAlert", "idle") ELSE "idle"

\* checkSystemHealth from its second test on, for the systemHealth value h:
\* the online to offline transition, then the third test
HealthTail(h) ==
    IF h.isOnline /\ status # "ready"
    THEN /\ systemHealth' = [h EXCEPT !.isOnline = FALSE, !.lastOnlineTime = TRUE]
         /\ \E late \in BOOLEAN :
              checkPc' = sendSystemAlert("lostAlert", SheetsCheck(h, late))
    ELSE /\ systemHealth' = h
         /\ \E late \in BOOLEAN : checkPc' = SheetsCheck(h, late)

\* checkSystemHealth from its call to its first await or to its end
CheckSystemHealth ==
    /\ checkPc = "idle"
    /\ IF ~systemHealth.isOnline /\ status = "ready"
       THEN IF systemHealth.lastOnlineTime
            THEN /\ systemHealth' = [systemHealth EXCEPT !.isOnline = TRUE]
                 /\ checkPc' = sendSystemAlert("recovery", "idle")
            ELSE HealthTail([systemHealth EXCEPT !.isOnline = TRUE,
                                                 !.lastOnlineTime = TRUE])
       ELSE HealthTail(systemHealth)
    /\ hist' = IF checkPc' = "recovery" THEN [hist EXCEPT !.recovery = "called"]
               ELSE hist
    /\ UNCHANGED <<sheet, fileVars, ctlVars, isRunning, lockVars, logVars,
                   procVars, seenVars>>

\* the recovery notification's client.sendMessage settles (an error is
\* swallowed): lastOnlineTime is set and checkSystemHealth goes on
RecoverySettled ==
    /\ checkPc = "recovery"
    /\ HealthTail([systemHealth EXCEPT !.lastOnlineTime = TRUE])
    /\ UNCHANGED <<sheet, fileVars, ctlVars, isRunning, lockVars, logVars,
                   procVars, hist, seenVars>>

\* the client.sendMessage of the 'Google Sheets Connection Issue' alert settles
SheetsAlertSettled ==
    /\ checkPc = "sheetsAlert"
    /\ checkPc' = "idle"
    /\ UNCHANGED <<sheet, fileVars, ctlVars, isRunning, lockVars, logVars,
                   systemHealth, procVars, hist, seenVars>>

\* the sheets the health specification runs over
HealthSheets == {<<>>, <<Lead(PhoneP)>>}

InitHealth == Init /\ sheet \in HealthSheets /\ mainLog = NoFile

NextHealth == Next \/ CheckSystemHealth \/ RecoverySettled \/ SheetsAlertSettled

\* part_002 with a caller of checkSystemHealth
SpecHealth == InitHealth /\ [][NextHealth]_vars

\* the same, where a checkSystemHealth call that would change something is
\* made in the end, the sends it awaits settle, and a session that can log
\* in does
FairSpecHealth ==
    /\ SpecHealth
    /\ WF_vars(CheckSystemHealth)
    /\ WF_vars(RecoverySettled)
    /\ WF_vars(SheetsAlertSettled)
    /\ WF_vars(OnQr) /\ WF_vars(OnAuthenticated) /\ WF_vars(OnReady)


(***************************************************************************)
(* part_000: the read-receipt revision. processLeads has no entry guard    *)
(* and two passes (welcome, then catalog); the timer is armed at boot and  *)
(* POST /start does not call processLeads.                                 *)
(***************************************************************************)
\* a lead as part_000's fetchLeads returns it
Lead0(raw, cat) == [phone |-> raw, sendCatalog |-> cat]

\* the rows of the sheet: one lead asks for the catalog, one does not
SheetRows0 == {Lead0(PhoneP, TRUE), Lead0(PhoneQ, FALSE)}

LeadLists0 == SeqsUpTo(SheetRows0, MaxLeads)

NoLocals0 ==
    [leads |-> <<>>, i |-> 0, pass |-> 0, sentPhones |-> {}, catalogSentPhones |-> {}]

\* history of one invocation: its number, the number of the invocation that
\* was in its send loops when it began (0 when none was, and 0 again when a
\* log row was queued or being written while it loaded its sent set), the
\* phones it delivered the welcome to, how it ended
NoCycle0 == [n |-> 0, with |-> 0, okW |-> {}, result |-> "none"]

\* the main logs a booting process may find
BootLogs0 == {NoFile, FileOf(<<Row(KeyP, "Sent")>>)}

\* part_000: app.listen's callback arms the timer
Init0 ==
    /\ sheet \in LeadLists0
    /\ mainLog \in BootLogs0
    /\ catalogLog = FileOf(<<>>)
    /\ InitMemory
    /\ timerOn = TRUE
    /\ loc = [p \in Procs |-> NoLocals0]
    /\ cyc = [p \in Procs |-> NoCycle0]

getSentPhones0(file) == {normalizePhone0(ph) : ph \in LoggedPhones(file, "")}

getCatalogSentPhones0(file) == {normalizePhone0(ph) : ph \in LoggedPhones(file, "Sent")}

\* part_000: safeLogMessage(type, phone, name, status)
safeLogMessage0(s, type, phone, st) ==
    processLogQueue(Push(s, type, Row(normalizePhone0(phone), st)))

\* the first index from i on that the first pass does not skip
RECURSIVE NextWelcome0(_, _, _, _)
NextWelcome0(leads, i, locks, sent) ==
    IF i > Len(leads) THEN i
    ELSE IF normalizePhone0(leads[i].phone) \in (locks \cup sent)
         THEN NextWelcome0(leads, i + 1, locks, sent)
         ELSE i

\* the second pass takes a lead that is not locked, whose welcome is sent,
\* whose catalog is requested and not sent
NeedsCatalog0(lead, locks, sent, catSent) ==
    /\ normalizePhone0(lead.phone) \notin locks
    /\ normalizePhone0(lead.phone) \in sent
    /\ lead.sendCatalog
    /\ normalizePhone0(lead.phone) \notin catSent

\* the first index from i on that the second pass does not skip
RECURSIVE NextCatalog0(_, _, _, _, _)
NextCatalog0(leads, i, locks, sent, catSent) ==
    IF i > Len(leads) THEN i
    ELSE IF NeedsCatalog0(leads[i], locks, sent, catSent) THEN i
    ELSE NextCatalog0(leads, i + 1, locks, sent, catSent)

\* the second loop is left and processLeads returns
Finish0(p, l, result) ==
    /\ pc' = [pc EXCEPT ![p] = "idle"]
    /\ loc' = [loc EXCEPT ![p] = l]
    /\ cyc' = [cyc EXCEPT ![p].result = result]
    /\ UNCHANGED <<processingLocks, logVars, hist>>

\* the top of the second for loop with lead index i, run up to the next await
SecondPass0(p, i, l) ==
    LET j == NextCatalog0(l.leads, i, processingLocks, l.sentPhones, l.catalogSentPhones)
    IN  IF i > Len(l.leads) THEN Finish0(p, l, "complete")
        ELSE IF ~processing THEN Finish0(p, l, "stopped")
        ELSE IF j > Len(l.leads) THEN Finish0(p, [l EXCEPT !.i = j], "complete")
        ELSE /\ loc' = [loc EXCEPT ![p] = [l EXCEPT !.i = j, !.pass = 2]]
             /\ IF status # "ready"
                THEN /\ pc' = [pc EXCEPT ![p] = "delay"]
                     /\ UNCHANGED processingLocks
                ELSE /\ pc' = [pc EXCEPT ![p] = "cSend"]
                     /\ processingLocks' =
                          processingLocks \cup {normalizePhone0(l.leads[j].phone)}
             /\ UNCHANGED <<logVars, cyc, hist>>

\* the catch block of the first loop's body, and the lock's release after it
Handler0(p, l, msg, h) ==
    /\ SetLog(safeLogMessage0(LogState, "main", l.leads[l.i].phone, FailureStatus(msg)))
    /\ loc' = [loc EXCEPT ![p] =
                 [l EXCEPT !.sentPhones = @ \cup {normalizePhone0(l.leads[l.i].phone)}]]
    /\ processingLocks' = processingLocks \ {normalizePhone0(l.leads[l.i].phone)}
    /\ pc' = [pc EXCEPT ![p] = "delay"]
    /\ hist' = h
    /\ UNCHANGED cyc

\* the top of the first for loop with lead index i, run up to the next await
FirstPass0(p, i, l) ==
    LET j == NextWelcome0(l.leads, i, processingLocks, l.sentPhones)
    IN  IF i > Len(l.leads) \/ ~processing \/ j > Len(l.leads)
        THEN SecondPass0(p, 1, l)
        ELSE IF status # "ready"
             THEN Handler0(p, [l EXCEPT !.i = j, !.pass = 1], ErrNotReady, hist)
        ELSE /\ processingLocks' = processingLocks \cup {normalizePhone0(l.leads[j].phone)}
             /\ pc' = [pc EXCEPT ![p] = "wSend"]
             /\ loc' = [loc EXCEPT ![p] = [l EXCEPT !.i = j, !.pass = 1]]
             /\ UNCHANGED <<logVars, cyc, hist>>

\* the awaits inside the two for loops
LoopPcs0 == {"wSend", "delay", "cSend", "cPause", "lSend"}

\* the number of the invocation other than p that is in its loops, 0 when
\* there is none
InLoop(p) ==
    IF \E q \in Procs \ {p} : pc[q] \in LoopPcs0
    THEN cyc[CHOOSE q \in Procs \ {p} : pc[q] \in LoopPcs0].n ELSE 0

\* part_000: processLeads from its call to its first await (fetchLeads)
processLeads0 ==
    /\ pc' = [pc EXCEPT ![FreeProc] = "fetch"]
    /\ loc' = [loc EXCEPT ![FreeProc] = NoLocals0]
    /\ cyc' = [cyc EXCEPT ![FreeProc] =
                 [NoCycle0 EXCEPT !.n = hist.cycles + 1, !.with = InLoop(FreeProc)]]
    /\ hist' = [hist EXCEPT !.cycles = @ + 1, !.sinceBoot = @ + 1]

FetchOk0(p) ==
    /\ pc[p] = "fetch"
    /\ pc' = [pc EXCEPT ![p] = "loadSent"]
    /\ loc' = [loc EXCEPT ![p].leads = sheet]
    /\ UNCHANGED <<sheet, fileVars, ctlVars, isRunning, lockVars, logVars,
                   healthVars, cyc, hist, seenVars>>

FetchFail0(p) ==
    /\ pc[p] = "fetch"
    /\ CanFault
    /\ pc' = [pc EXCEPT ![p] = "loadSent"]
    /\ loc' = [loc EXCEPT ![p].leads = <<>>]
    /\ hist' = Fault(hist)
    /\ UNCHANGED <<sheet, fileVars, ctlVars, isRunning, lockVars, logVars,
                   healthVars, cyc, seenVars>>

LoadSent0(p) ==
    /\ pc[p] = "loadSent"
    /\ pc' = [pc EXCEPT ![p] = "loadCat"]
    /\ loc' = [loc EXCEPT ![p].sentPhones = getSentPhones0(mainLog)]
    /\ cyc' = [cyc EXCEPT ![p].with = IF LogIdle THEN @ ELSE 0]
    /\ UNCHANGED <<sheet, fileVars, ctlVars, isRunning, lockVars, logVars,
                   healthVars, hist, seenVars>>

LoadCat0(p) ==
    /\ pc[p] = "loadCat"
    /\ FirstPass0(p, 1, [loc[p] EXCEPT
                           !.catalogSentPhones = getCatalogSentPhones0(catalogLog)])
    /\ UNCHANGED <<sheet, fileVars, ctlVars, isRunning, messageSendingLocks,
                   healthVars, seenVars>>

\* part_000: a client.sendMessage call can resolve
Deliverable0 == status = "ready" /\ ~clientNew

\* the welcome message is delivered: the Sent row is queued, the lock released
WelcomeOk0(p) ==
    LET key == normalizePhone0(loc[p].leads[loc[p].i].phone)
    IN  /\ pc[p] = "wSend"
        /\ Deliverable0
        /\ SetLog(safeLogMessage0(LogState, "main", loc[p].leads[loc[p].i].phone, "Sent"))
        /\ loc' = [loc EXCEPT ![p].sentPhones = @ \cup {key}]
        /\ processingLocks' = processingLocks \ {key}
        /\ pc' = [pc EXCEPT ![p] = "delay"]
        /\ cyc' = [cyc EXCEPT ![p].okW = @ \cup {key}]
        /\ hist' = [hist EXCEPT !.welcomeOk[key] = @ + 1]
        /\ UNCHANGED <<sheet, fileVars, ctlVars, isRunning, messageSendingLocks,
                       healthVars, seenVars>>

\* the welcome send rejects with the error msg
WelcomeFail0(p, msg) ==
    /\ pc[p] = "wSend"
    /\ ~Deliverable0 \/ CanFault
    /\ Handler0(p, loc[p], msg, IF Deliverable0 THEN Fault(hist) ELSE hist)
    /\ UNCHANGED <<sheet, fileVars, ctlVars, isRunning, messageSendingLocks,
                   healthVars, seenVars>>

\* the SEND_DELAY wait of either loop is over
Delay0(p) ==
    /\ pc[p] = "delay"
    /\ IF loc[p].pass = 1
       THEN IF ~processing THEN SecondPass0(p, 1, loc[p])
            ELSE FirstPass0(p, loc[p].i + 1, loc[p])
       ELSE IF ~processing
            THEN Finish0(p, loc[p],
                         IF loc[p].i >= Len(loc[p].leads) THEN "complete" ELSE "stopped")
            ELSE SecondPass0(p, loc[p].i + 1, loc[p])
    /\ UNCHANGED <<sheet, fileVars, ctlVars, isRunning, messageSendingLocks,
                   healthVars, seenVars>>

\* sendCatalogAndLocation: the catalog file (or its caption) is delivered
CatalogMediaOk0(p) ==
    /\ pc[p] = "cSend"
    /\ Deliverable0
    /\ pc' = [pc EXCEPT ![p] = "cPause"]
    /\ hist' = [hist EXCEPT
                  !.catalogOk[normalizePhone0(loc[p].leads[loc[p].i].phone)] = @ + 1]
    /\ UNCHANGED <<sheet, fileVars, ctlVars, isRunning, lockVars, logVars,
                   healthVars, loc, cyc, seenVars>>

\* sendCatalogAndLocation: the 1 s wait is over
CatalogPause0(p) ==
    /\ pc[p] = "cPause"
    /\ pc' = [pc EXCEPT ![p] = "lSend"]
    /\ UNCHANGED <<sheet, fileVars, ctlVars, isRunning, lockVars, logVars,
                   healthVars, loc, cyc, hist, seenVars>>

\* the location message is delivered: the catalog row is queued, the lock released
LocationOk0(p) ==
    LET key == normalizePhone0(loc[p].leads[loc[p].i].phone)
    IN  /\ pc[p] = "lSend"
        /\ Deliverable0
        /\ SetLog(safeLogMessage0(LogState, "catalog", loc[p].leads[loc[p].i].phone, "Sent"))
        /\ loc' = [loc EXCEPT ![p].catalogSentPhones = @ \cup {key}]
        /\ processingLocks' = processingLocks \ {key}
        /\ pc' = [pc EXCEPT ![p] = "delay"]
        /\ UNCHANGED <<sheet, fileVars, ctlVars, isRunning, messageSendingLocks,
                       healthVars, cyc, hist, seenVars>>

\* a send of sendCatalogAndLocation rejects: the catch block logs to the console
CatalogFail0(p) ==
    /\ pc[p] \in {"cSend", "lSend"}
    /\ ~Deliverable0 \/ CanFault
    /\ processingLocks' = processingLocks \ {normalizePhone0(loc[p].leads[loc[p].i].phone)}
    /\ pc' = [pc EXCEPT ![p] = "delay"]
    /\ hist' = IF Deliverable0 THEN Fault(hist) ELSE hist
    /\ UNCHANGED <<sheet, fileVars, ctlVars, isRunning, messageSendingLocks, logVars,
                   healthVars, loc, cyc, seenVars>>

\* part_000: POST /start
Start0 ==
    /\ ~processing
    /\ status = "ready"
    /\ processing' = TRUE
    /\ timerOn' = TRUE
    /\ UNCHANGED <<sheet, fileVars, status, isRunning, lockVars, logVars,
                   healthVars, procVars, hist, seenVars>>

\* part_000: the setInterval callback of startProcessingLoop
Tick0 ==
    /\ timerOn
    /\ processing /\ status = "ready"
    /\ hist.cycles < MaxCycles
    /\ \E p \in Procs : pc[p] = "idle"
    /\ processLeads0
    /\ UNCHANGED <<sheet, fileVars, ctlVars, isRunning, lockVars, logVars,
                   healthVars, seenVars>>

\* part_000: crash and restart
Crash0 == Reboot(TRUE, NoLocals0, NoCycle0)

Next0 ==
    \/ Start0 \/ Stop \/ Tick0
    \/ OnQr \/ OnAuthenticated \/ OnReady \/ OnDisconnected
    \/ Crash0
    \/ WriteMain \/ WriteMainFail \/ WriteCatalog \/ WriteCatalogFail
    \/ \E p \in Procs :
         \/ FetchOk0(p) \/ FetchFail0(p) \/ LoadSent0(p) \/ LoadCat0(p)
         \/ WelcomeOk0(p) \/ Delay0(p)
         \/ CatalogMediaOk0(p) \/ CatalogPause0(p) \/ LocationOk0(p) \/ CatalogFail0(p)
         \/ \E msg \in SendErrors : WelcomeFail0(p, msg)

\* part_000
Spec0 == Init0 /\ [][Next0]_vars

(***************************************************************************)
(* part_000: read receipts. client.on('message_ack') calls                 *)
(* updateLogWithSeenStatus, which rewrites the main log under its file     *)
(* lock; POST /reset clears seenNotifications and replaces the client.     *)
(***************************************************************************)
\* a mutant of the loop that does not look for a Seen row of the phone
RECURSIVE SeenScan_ignoresSeenRows(_, _, _, _, _, _)
SeenScan_ignoresSeenRows(rows, i, k, out, updated, alreadySeen) ==
    IF i > Len(rows)
    THEN [rows |-> out, updated |-> updated, alreadySeen |-> alreadySeen]
    ELSE IF /\ normalizePhone0(rows[i].phone) = k /\ rows[i].status = "Sent"
            /\ ~updated /\ ~alreadySeen
         THEN SeenScan_ignoresSeenRows(rows, i + 1, k,
                                       Append(out, Row(rows[i].phone, "Seen")),
                                       TRUE, alreadySeen)
         ELSE SeenScan_ignoresSeenRows(rows, i + 1, k, Append(out, rows[i]),
                                       updated, alreadySeen)

\* a mutant of the loop that rewrites every Sent row of the phone
RECURSIVE SeenScan_rewritesAll(_, _, _, _, _, _)
SeenScan_rewritesAll(rows, i, k, out, updated, alreadySeen) ==
    IF i > Len(rows)
    THEN [rows |-> out, updated |-> updated, alreadySeen |-> alreadySeen]
    ELSE IF /\ normalizePhone0(rows[i].phone) = k /\ rows[i].status = "Sent"
            /\ ~alreadySeen
         THEN SeenScan_rewritesAll(rows, i + 1, k,
                                   Append(out, Row(rows[i].phone, "Seen")),
                                   TRUE, alreadySeen)
         ELSE SeenScan_rewritesAll(rows, i + 1, k, Append(out, rows[i]), updated,
                                   alreadySeen \/ (/\ normalizePhone0(rows[i].phone) = k
                                                   /\ rows[i].status = "Seen"))

\* alreadySeen after the row: a Seen row of the phone sets it
SeenAfter(row, k, alreadySeen) ==
    alreadySeen \/ (normalizePhone0(row.phone) = k /\ row.status = "Seen")

\* the for loop of updateLogWithSeenStatus from row i on: out is newRows
\* without the header; the result is newRows, updated and alreadySeen
RECURSIVE SeenScan(_, _, _, _, _, _)
SeenScan(rows, i, k, out, updated, alreadySeen) ==
    IF i > Len(rows)
    THEN [rows |-> out, updated |-> updated, alreadySeen |-> alreadySeen]
    ELSE IF /\ normalizePhone0(rows[i].phone) = k /\ rows[i].status = "Sent"
            /\ ~updated /\ ~SeenAfter(rows[i], k, alreadySeen)
         THEN SeenScan(rows, i + 1, k, Append(out, Row(rows[i].phone, "Seen")),
                       TRUE, SeenAfter(rows[i], k, alreadySeen))
         ELSE SeenScan(rows, i + 1, k, Append(out, rows[i]),
                       updated, SeenAfter(rows[i], k, alreadySeen))

\* the slot a new updateLogWithSeenStatus call runs in
FreeAck == IF ackPc["r1"] = "idle" THEN "r1" ELSE "r2"

\* the finally block of updateLogWithSeenStatus
ReleaseSeen(u) ==
    /\ fileLocks' = [fileLocks EXCEPT !.mainLog = FALSE]
    /\ processingSeenStatus' = processingSeenStatus \ {ackLoc[u].phone}
    /\ ackPc' = [ackPc EXCEPT ![u] = "idle"]
    /\ ackLoc' = [ackLoc EXCEPT ![u] = NoAck]

\* updateLogWithSeenStatus from the end of its wait loop to its first await
EnterSeen(u, l) ==
    IF ~mainLog.exists
    THEN /\ processingSeenStatus' = processingSeenStatus \ {l.phone}
         /\ ackPc' = [ackPc EXCEPT ![u] = "idle"]
         /\ ackLoc' = [ackLoc EXCEPT ![u] = NoAck]
         /\ UNCHANGED fileLocks
    ELSE /\ fileLocks' = [fileLocks EXCEPT !.mainLog = TRUE]
         /\ processingSeenStatus' = processingSeenStatus \cup {l.phone}
         /\ ackPc' = [ackPc EXCEPT ![u] = "read"]
         /\ ackLoc' = [ackLoc EXCEPT ![u] =
                         [l EXCEPT !.second = seenHist.rewrites[l.phone] > 0]]

\* a read receipt for a message sent to k: the message_ack handler calls
\* updateLogWithSeenStatus(k), which runs to its first await
SeenCall(k) ==
    LET u == FreeAck
        l == [NoAck EXCEPT
                !.phone = k,
                !.later = \/ seenHist.rewrites[k] > 0
                          \/ \E v \in Acks : ackPc[v] # "idle" /\ ackLoc[v].phone = k]
    IN  /\ ackPc[u] = "idle"
        /\ k \in LoggedPhones(mainLog, "") \/ hist.welcomeOk[k] > 0
        /\ IF k \in processingSeenStatus
           THEN UNCHANGED <<ackPc, ackLoc, processingSeenStatus, fileLocks>>
           ELSE IF fileLocks.mainLog
           THEN /\ ackPc' = [ackPc EXCEPT ![u] = "wait"]
                /\ ackLoc' = [ackLoc EXCEPT ![u] = l]
                /\ UNCHANGED <<processingSeenStatus, fileLocks>>
           ELSE EnterSeen(u, l)
        /\ UNCHANGED <<sheet, fileVars, ctlVars, isRunning, lockVars, logQueue, logTask,
                       logEntry, healthVars, seenNotifications, seenHist, clientNew,
                       procVars, hist>>

\* the 100 ms poll of the wait loop finds the file lock free
SeenWaitOver(u) ==
    /\ ackPc[u] = "wait"
    /\ ~fileLocks.mainLog
    /\ EnterSeen(u, ackLoc[u])
    /\ UNCHANGED <<sheet, fileVars, ctlVars, isRunning, lockVars, logQueue, logTask,
                   logEntry, healthVars, seenNotifications, seenHist, clientNew,
                   procVars, hist>>

\* readFile resolves: the rows are scanned; the call goes on to writeFile when
\* a row was updated and ends otherwise
SeenRead(u) ==
    LET k == ackLoc[u].phone
        r == SeenScan(mainLog.rows, 1, k, <<>>, FALSE, k \in seenNotifications)
    IN  /\ ackPc[u] = "read"
        /\ IF r.updated
           THEN /\ seenNotifications' = seenNotifications \cup {k}
                /\ ackPc' = [ackPc EXCEPT ![u] = "write"]
                /\ ackLoc' = [ackLoc EXCEPT ![u].newRows = r.rows,
                                            ![u].alreadySeen = r.alreadySeen,
                                            ![u].customerName = TRUE]
                /\ UNCHANGED <<fileLocks, processingSeenStatus>>
           ELSE /\ ReleaseSeen(u)
                /\ UNCHANGED seenNotifications
        /\ UNCHANGED <<sheet, fileVars, ctlVars, isRunning, lockVars, logQueue, logTask,
                       logEntry, healthVars, seenHist, clientNew, procVars, hist>>

\* writeFile resolves: the file holds newRows; isPhoneInLeads is awaited when
\* the notification is due
SeenWriteOk(u) ==
    LET l == ackLoc[u]
    IN  /\ ackPc[u] = "write"
        /\ mainLog' = [exists |-> TRUE, rows |-> l.newRows, eol |-> TRUE]
        /\ seenHist' = [seenHist EXCEPT !.rewrites[l.phone] = @ + 1]
        /\ IF l.customerName /\ ~l.alreadySeen
           THEN /\ ackPc' = [ackPc EXCEPT ![u] = "leads"]
                /\ UNCHANGED <<ackLoc, fileLocks, processingSeenStatus>>
           ELSE ReleaseSeen(u)
        /\ UNCHANGED <<sheet, catalogLog, ctlVars, isRunning, lockVars, logQueue,
                       logTask, logEntry, healthVars, seenNotifications, clientNew,
                       procVars, hist>>

\* writeFile rejects: the catch block logs to the console
SeenWriteFail(u) ==
    /\ ackPc[u] = "write"
    /\ CanFault
    /\ ReleaseSeen(u)
    /\ hist' = Fault(hist)
    /\ UNCHANGED <<sheet, fileVars, ctlVars, isRunning, lockVars, logQueue, logTask,
                   logEntry, healthVars, seenNotifications, seenHist, clientNew,
                   procVars>>

\* isPhoneInLeads resolves with the sheet's rows: sendNotification is called
\* when the phone is among them
SeenLeadsOk(u) ==
    /\ ackPc[u] = "leads"
    /\ IF \E j \in 1..Len(sheet) : normalizePhone0(sheet[j].phone) = ackLoc[u].phone
       THEN /\ ackPc' = [ackPc EXCEPT ![u] = "notify"]
            /\ UNCHANGED <<ackLoc, fileLocks, processingSeenStatus>>
       ELSE ReleaseSeen(u)
    /\ UNCHANGED <<sheet, fileVars, ctlVars, isRunning, lockVars, logQueue, logTask,
                   logEntry, healthVars, seenNotifications, seenHist, clientNew,
                   procVars, hist>>

\* isPhoneInLeads finds no lead because its fetch failed
SeenLeadsFail(u) ==
    /\ ackPc[u] = "leads"
    /\ CanFault
    /\ ReleaseSeen(u)
    /\ hist' = Fault(hist)
    /\ UNCHANGED <<sheet, fileVars, ctlVars, isRunning, lockVars, logQueue, logTask,
                   logEntry, healthVars, seenNotifications, seenHist, clientNew,
                   procVars>>

\* sendNotification returns (its send has resolved, or has rejected and left a
\* retry timer behind)
SeenNotified(u) ==
    /\ ackPc[u] = "notify"
    /\ ReleaseSeen(u)
    /\ seenHist' = [seenHist EXCEPT !.notifications[ackLoc[u].phone] = @ + 1]
    /\ UNCHANGED <<sheet, fileVars, ctlVars, isRunning, lockVars, logQueue, logTask,
                   logEntry, healthVars, seenNotifications, clientNew,
                   procVars, hist>>

\* the main section of processLogQueue after its wait loop
ResumeMain(s) ==
    [s EXCEPT !.locks.mainLog = TRUE, !.entry.main = Head(s.queue.main),
              !.queue.main = Tail(s.queue.main), !.task.main = "io"]

\* the 50 ms poll of processLogQueue's wait loop finds the file lock free
MainWaitOver ==
    /\ logTask.main = "wait"
    /\ ~fileLocks.mainLog
    /\ SetLog(ResumeMain(LogState))
    /\ UNCHANGED <<sheet, fileVars, ctlVars, isRunning, lockVars, healthVars,
                   seenVars, procVars, hist>>

\* part_000: POST /reset destroys the client, clears seenNotifications and
\* creates a new client; status keeps its value until the new client's event
Reset0 ==
    /\ seenHist.resets < MaxResets
    /\ seenNotifications' = {}
    /\ clientNew' = TRUE
    /\ seenHist' = [seenHist EXCEPT !.resets = @ + 1]
    /\ UNCHANGED <<sheet, fileVars, ctlVars, isRunning, lockVars, logVars, healthVars,
                   processingSeenStatus, ackPc, ackLoc, procVars, hist>>

\* the new client's first event: with the session directory removed, 'qr'
OnQrAfterReset ==
    /\ clientNew
    /\ status' = "qr_pending"
    /\ clientNew' = FALSE
    /\ UNCHANGED <<sheet, fileVars, processing, timerOn, isRunning, lockVars, logVars,
                   healthVars, seenNotifications, processingSeenStatus, ackPc, ackLoc,
                   seenHist, procVars, hist>>

\* the sheet and the main logs of the receipt specification: one lead that
\* asks for no catalog, and a log that is absent, or holds two Sent rows for
\* the lead's phone
SeenSheet == <<Lead0(PhoneQ, FALSE)>>

SeenBootLogs == {NoFile, FileOf(<<Row(KeyQ, "Sent"), Row(KeyQ, "Sent")>>)}

InitSeen ==
    /\ sheet = SeenSheet
    /\ mainLog \in SeenBootLogs
    /\ catalogLog = FileOf(<<>>)
    /\ InitMemory
    /\ timerOn = TRUE
    /\ loc = [p \in Procs |-> NoLocals0]
    /\ cyc = [p \in Procs |-> NoCycle0]

\* the steps of part_000 over a sheet whose leads ask for no catalog
Next0NoCatalog ==
    \/ Start0 \/ Stop \/ Tick0
    \/ OnQr \/ OnAuthenticated \/ OnReady \/ OnDisconnected
    \/ Crash0
    \/ WriteMain \/ WriteMainFail
    \/ \E p \in Procs :
         \/ FetchOk0(p) \/ FetchFail0(p) \/ LoadSent0(p) \/ LoadCat0(p)
         \/ WelcomeOk0(p) \/ Delay0(p)
         \/ \E msg \in SendErrors : WelcomeFail0(p, msg)

NextSeen ==
    \/ Next0NoCatalog
    \/ \E k \in Keys : SeenCall(k)
    \/ \E u \in Acks :
         \/ SeenWaitOver(u) \/ SeenRead(u) \/ SeenWriteOk(u) \/ SeenWriteFail(u)
         \/ SeenLeadsOk(u) \/ SeenLeadsFail(u) \/ SeenNotified(u)
    \/ MainWaitOver
    \/ Reset0 \/ OnQrAfterReset

\* part_000 with read receipts and POST /reset
SpecSeen == InitSeen /\ [][NextSeen]_vars

\* main logs with a row of a phone that is not in the sheet, or with two Sent
\* rows of the phone that is
ReceiptBootLogs ==
    {FileOf(<<Row(KeyP, "Sent"), Row(KeyQ, "Sent")>>),
     FileOf(<<Row(KeyQ, "Sent"), Row(KeyQ, "Sent")>>)}

InitReceipts ==
    /\ sheet = SeenSheet
    /\ mainLog \in ReceiptBootLogs
    /\ catalogLog = FileOf(<<>>)
    /\ InitMemory
    /\ timerOn = TRUE
    /\ loc = [p \in Procs |-> NoLocals0]
    /\ cyc = [p \in Procs |-> NoCycle0]

\* the steps of part_000 while no POST /start has been made: the session,
\* restarts, read receipts and POST /reset
NextReceipts ==
    \/ OnQr \/ OnAuthenticated \/ OnReady \/ OnDisconnected
    \/ Crash0
    \/ \E k \in Keys : SeenCall(k)
    \/ \E u \in Acks :
         \/ SeenWaitOver(u) \/ SeenRead(u) \/ SeenWriteOk(u) \/ SeenWriteFail(u)
         \/ SeenLeadsOk(u) \/ SeenLeadsFail(u) \/ SeenNotified(u)
    \/ Reset0 \/ OnQrAfterReset

\* part_000's read receipts over the logs of an earlier run
SpecReceipts == InitReceipts /\ [][NextReceipts]_vars

\* a main log with a row of another phone than the lead's
InitAckRace ==
    /\ sheet = SeenSheet
    /\ mainLog = FileOf(<<Row(KeyP, "Sent")>>)
    /\ catalogLog = FileOf(<<>>)
    /\ InitMemory
    /\ timerOn = TRUE
    /\ loc = [p \in Procs |-> NoLocals0]
    /\ cyc = [p \in Procs |-> NoCycle0]

\* the steps of part_000 in a run where nothing fails: log in, POST /start,
\* the cycles, the log queue and the read receipts
NextAckRace ==
    \/ Start0 \/ Tick0
    \/ OnQr \/ OnAuthenticated \/ OnReady
    \/ WriteMain \/ MainWaitOver
    \/ \E p \in Procs :
         \/ FetchOk0(p) \/ LoadSent0(p) \/ LoadCat0(p) \/ WelcomeOk0(p) \/ Delay0(p)
    \/ \E k \in Keys : SeenCall(k)
    \/ \E u \in Acks :
         \/ SeenWaitOver(u) \/ SeenRead(u) \/ SeenWriteOk(u)
         \/ SeenLeadsOk(u) \/ SeenNotified(u)

\* part_000 with read receipts, without failures
SpecAckRace == InitAckRace /\ [][NextAckRace]_vars


(***************************************************************************)
(* part_002: processLogQueue's file writes, one await at a time. The       *)
(* header write or the newline check comes first, the appendFile of the    *)
(* line second; the files may have been left by an editor without a final  *)
(* newline.                                                                *)
(***************************************************************************)
\* the most entries a log file and its queue hold together
MaxLogged == 2

LogFile(t) == IF t = "main" THEN mainLog ELSE catalogLog

SetFile(t, file) ==
    IF t = "main" THEN mainLog' = file /\ UNCHANGED catalogLog
    ELSE catalogLog' = file /\ UNCHANGED mainLog

\* a mutant of the first writes that does not check the last byte
PrepareFile_noRepair(file) == IF ~file.exists THEN FileOf(<<>>) ELSE file

\* the file after the writes that precede the line: writeFile of the header
\* when the file is absent, appendFile of "\n" when its content does not end
\* with a newline
PrepareFile(file) ==
    IF ~file.exists THEN FileOf(<<>>)
    ELSE IF ~file.eol THEN [file EXCEPT !.eol = TRUE]
    ELSE file

\* the file after appendFile of the entry's line: after a last byte that is no
\* newline the line continues the last row (or the header), which csv-parser
\* then yields as one row with a status no code wrote
RawAppend(file, entry) ==
    IF file.eol THEN [file EXCEPT !.rows = Append(@, entry)]
    ELSE IF file.rows = <<>> THEN [file EXCEPT !.eol = TRUE]
    ELSE [file EXCEPT !.rows[Len(file.rows)].status = "garbled", !.eol = TRUE]

\* the finally block of a section and what follows it
EndSection(t, s, requeue) ==
    IF t = "main" THEN EndMain(s, requeue) ELSE EndCatalog(s, requeue)

\* the rows a file has and will have when its queue is written
Logged(t) ==
    Len(LogFile(t).rows) + Len(logQueue[t]) + (IF logTask[t] = "idle" THEN 0 ELSE 1)

\* some code calls safeLogMessage(t, phone, name, st)
LogCall(t, phone, st) ==
    /\ Logged(t) < MaxLogged
    /\ SetLog(safeLogMessage2(LogState, t, phone, st))
    /\ hist' = [hist EXCEPT !.logRun[t].enqueued =
                  Append(@, Row(normalizePhone2(phone), st))]
    /\ UNCHANGED <<sheet, fileVars, ctlVars, isRunning, lockVars, healthVars,
                   seenVars, procVars>>

\* writeFile of the header, or readFile and the appendFile of "\n", resolve
PrepareLog(t) ==
    /\ logTask[t] = "io"
    /\ SetFile(t, PrepareFile(LogFile(t)))
    /\ logTask' = [logTask EXCEPT ![t] = "append"]
    /\ hist' = [hist EXCEPT !.lastWrite[t] =
                  [before |-> LogFile(t), entry |-> logEntry[t],
                   blind |-> FALSE, done |-> FALSE]]
    /\ UNCHANGED <<sheet, ctlVars, isRunning, lockVars, fileLocks, logQueue,
                   logEntry, healthVars, seenVars, procVars>>

\* readFile rejects: the inner catch logs the error and the section goes on
PrepareReadFail(t) ==
    /\ logTask[t] = "io"
    /\ LogFile(t).exists
    /\ CanFault
    /\ logTask' = [logTask EXCEPT ![t] = "append"]
    /\ hist' = [Fault(hist) EXCEPT !.lastWrite[t] =
                  [before |-> LogFile(t), entry |-> logEntry[t],
                   blind |-> TRUE, done |-> FALSE]]
    /\ UNCHANGED <<sheet, fileVars, ctlVars, isRunning, lockVars, fileLocks,
                   logQueue, logEntry, healthVars, seenVars, procVars>>

\* writeFile of the header, or appendFile of "\n", rejects: the entry goes
\* back to the head of the queue
PrepareFail(t) ==
    /\ logTask[t] = "io"
    /\ ~LogFile(t).exists \/ ~LogFile(t).eol
    /\ CanFault
    /\ SetLog(EndSection(t, LogState, TRUE))
    /\ hist' = [Fault(hist) EXCEPT !.logRun[t].requeued = @ \/ logQueue[t] # <<>>]
    /\ UNCHANGED <<sheet, fileVars, ctlVars, isRunning, lockVars, healthVars,
                   seenVars, procVars>>

\* appendFile of the line resolves
AppendLog(t) ==
    /\ logTask[t] = "append"
    /\ SetFile(t, RawAppend(LogFile(t), logEntry[t]))
    /\ SetLog(EndSection(t, LogState, FALSE))
    /\ hist' = [hist EXCEPT !.lastWrite[t].done = TRUE,
                             !.logRun[t].merged = @ \/ ~LogFile(t).eol]
    /\ UNCHANGED <<sheet, ctlVars, isRunning, lockVars, healthVars, seenVars,
                   procVars>>

\* appendFile of the line rejects: the entry goes back to the head of the queue
AppendFail(t) ==
    /\ logTask[t] = "append"
    /\ CanFault
    /\ SetLog(EndSection(t, LogState, TRUE))
    /\ hist' = [Fault(hist) EXCEPT !.logRun[t].requeued = @ \/ logQueue[t] # <<>>]
    /\ UNCHANGED <<sheet, fileVars, ctlVars, isRunning, lockVars, healthVars,
                   seenVars, procVars>>

\* the log files a boot may find: none, one with the header, and two that an
\* editor saved without a final newline
LogBootFiles ==
    {NoFile, FileOf(<<>>),
     [exists |-> TRUE, rows |-> <<>>, eol |-> FALSE],
     [exists |-> TRUE, rows |-> <<Row(KeyP, "Sent")>>, eol |-> FALSE]}

InitLog ==
    /\ sheet = <<>>
    /\ mainLog \in LogBootFiles
    /\ catalogLog \in LogBootFiles
    /\ InitMemory
    /\ timerOn = FALSE
    /\ loc = [p \in Procs |-> NoLocals]
    /\ cyc = [p \in Procs |-> NoCycle]

\* the log queue in one run of the process
NextLogRun ==
    \E t \in LogTypes :
       \/ \E phone \in {PhoneQ}, st \in {"Sent", "Failed"} : LogCall(t, phone, st)
       \/ PrepareLog(t) \/ PrepareReadFail(t) \/ PrepareFail(t)
       \/ AppendLog(t) \/ AppendFail(t)

NextLog == Crash \/ NextLogRun

\* part_002's log queue
SpecLog == InitLog /\ [][NextLog]_vars

SpecLogRun == InitLog /\ [][NextLogRun]_vars

\* the same, where the file operations of both logs settle: a write that is
\* pending resolves in the end, and does not reject for ever
FairSpecLogRun ==
    /\ SpecLogRun
    /\ \A t \in LogTypes : WF_vars(PrepareLog(t)) /\ WF_vars(AppendLog(t))

(***************************************************************************)
(* normalizePhone as a function of its argument: the sheet holds one lead  *)
(* with the text the spreadsheet gave for its phone; processingLocks       *)
(* receives the key part_002 computes for it (as processLeads adds it) and *)
(* processingSeenStatus the key part_000 computes.                         *)
(***************************************************************************)
\* longest text of the characters below
MaxText == 3

\* characters that take each branch of normalizePhone: a digit, the sign, the
\* exponent's letter, a blank
TextChars == {"9", "+", "E", " "}

\* one subscriber as the 12-digit form with a leading +, and as numbers in
\* scientific notation with and without a sign in the exponent
PhonePlus91 == <<"+", "9", "1">> \o PhoneP
PhoneP91    == <<"9", "1">> \o PhoneP
SciPlus     == <<"9", ".", "8", "7", "6", "5", "4", "3", "2", "1", "0", "E", "+", "9">>
SciPlusLow  == <<"9", ".", "8", "7", "6", "5", "4", "3", "2", "1", "e", "+", "9">>
SciBare     == <<"9", ".", "8", "7", "6", "5", "4", "3", "2", "1", "0", "E", "9">>

\* the forms of the subscriber whose exponent, if any, has its sign
SignedForms == {PhoneP, PhoneP0, PhoneP91, PhonePlus91, SciPlus, SciPlusLow}

\* the forms of the subscriber
SubscriberForms == SignedForms \cup {SciBare}

\* the subscriber's number after the international call prefix 00
PhoneP00 == <<"0", "0">> \o PhoneP

NormInputs == SeqsUpTo(TextChars, MaxText) \cup SubscriberForms \cup {PhoneQ, PhoneP00}

InitNorm ==
    /\ sheet \in {<<Lead(raw)>> : raw \in NormInputs}
    /\ mainLog = NoFile
    /\ catalogLog = NoFile
    /\ InitMemory
    /\ timerOn = FALSE
    /\ loc = [p \in Procs |-> NoLocals]
    /\ cyc = [p \in Procs |-> NoCycle]

\* part_002: normalizePhone(lead.phone)
Normalize2 ==
    /\ processingLocks = {}
    /\ processingLocks' = {normalizePhone2(sheet[1].phone)}
    /\ UNCHANGED <<sheet, fileVars, ctlVars, isRunning, messageSendingLocks, logVars,
                   healthVars, seenVars, procVars, hist>>

\* part_000: normalizePhone(phone)
Normalize0 ==
    /\ processingSeenStatus = {}
    /\ processingSeenStatus' = {normalizePhone0(sheet[1].phone)}
    /\ UNCHANGED <<sheet, fileVars, ctlVars, isRunning, lockVars, logVars, healthVars,
                   seenNotifications, ackPc, ackLoc, seenHist, clientNew, procVars,
                   hist>>

NextNorm == Normalize2 \/ Normalize0

\* normalizePhone of both revisions over the texts of NormInputs
SpecNorm == InitNorm /\ [][NextNorm]_vars

(***************************************************************************)
(* A send that rejects with a value that has no message: the catch block   *)
(* of the loop body throws when it reads error.message. part_002 releases  *)
(* the lock in a finally block, part_000 in the statement after the catch. *)
(***************************************************************************)
\* a mutant of the loop body whose lock release is skipped by the throw
HandlerThrows2_keepsLock(p) ==
    /\ pc[p] = "cSend"
    /\ CanFault
    /\ messageSendingLocks' =
         messageSendingLocks \ {normalizePhone2(loc[p].leads[loc[p].i].phone)}
    /\ pc' = [pc EXCEPT ![p] = "idle"]
    /\ cyc' = [cyc EXCEPT ![p].result = "error"]
    /\ isRunning' = FALSE
    /\ hist' = [Fault(hist) EXCEPT !.lastComplete = FALSE, !.lastClean = FALSE]
    /\ UNCHANGED <<sheet, fileVars, ctlVars, processingLocks, logVars, healthVars,
                   seenVars, loc>>

\* part_002: the catalog send rejects with such a value; sendWelcomeWithCatalog
\* rethrows it and releases its lock, the catch block of processLeads' loop
\* throws at error.message.toLowerCase(), its finally releases the processing
\* lock, and the catch and finally of processLeads end the cycle
HandlerThrows2(p) ==
    /\ pc[p] = "cSend"
    /\ CanFault
    /\ processingLocks' =
         processingLocks \ {normalizePhone2(loc[p].leads[loc[p].i].phone)}
    /\ messageSendingLocks' =
         messageSendingLocks \ {normalizePhone2(loc[p].leads[loc[p].i].phone)}
    /\ pc' = [pc EXCEPT ![p] = "idle"]
    /\ cyc' = [cyc EXCEPT ![p].result = "error"]
    /\ isRunning' = FALSE
    /\ hist' = [Fault(hist) EXCEPT !.lastComplete = FALSE, !.lastClean = FALSE]
    /\ UNCHANGED <<sheet, fileVars, ctlVars, logVars, healthVars, seenVars, loc>>

\* the sheets of the two specifications below
ThrowSheets2 == {<<>>, <<Lead(PhoneP)>>, <<Lead(PhoneP), Lead(PhoneQ)>>}

InitThrow2 == Init /\ sheet \in ThrowSheets2 /\ mainLog = NoFile

NextThrow2 == Next \/ \E p \in Procs : HandlerThrows2(p)

\* part_002 with sends that reject with a value without a message
SpecThrow2 == InitThrow2 /\ [][NextThrow2]_vars

\* part_000: a send of either pass rejects with undefined; the catch block
\* throws at error.message, the statement that removes the lock is not
\* reached, and the catch of processLeads ends the cycle
HandlerThrows0(p) ==
    /\ pc[p] \in {"wSend", "cSend", "lSend"}
    /\ CanFault
    /\ pc' = [pc EXCEPT ![p] = "idle"]
    /\ cyc' = [cyc EXCEPT ![p].result = "error"]
    /\ hist' = Fault(hist)
    /\ UNCHANGED <<sheet, fileVars, ctlVars, isRunning, lockVars, logVars,
                   healthVars, seenVars, loc>>

ThrowSheets0 == {<<Lead0(PhoneP, TRUE)>>, <<Lead0(PhoneP, TRUE), Lead0(PhoneQ, FALSE)>>}

InitThrow0 == Init0 /\ sheet \in ThrowSheets0 /\ mainLog = NoFile

NextThrow0 == Next0 \/ \E p \in Procs : HandlerThrows0(p)

\* part_000 with sends that reject with undefined
SpecThrow0 == InitThrow0 /\ [][NextThrow0]_vars

(***************************************************************************)
(* part_002: fetchLeads with rows whose conversion throws. The setup       *)
(* wizard writes a config.json without a filtering section; fetchLeads     *)
(* then throws at config.filtering.startDate whenever the sheet has a data *)
(* row, after it has recorded the successful call.                         *)
(***************************************************************************)
\* fetchLeads: the spreadsheet call resolves, the counter is reset, the
\* conversion of the rows throws and the catch block counts the failure
FetchConvFail2(p) ==
    LET n == 0 + 1
    IN  /\ pc[p] = "fetch"
        /\ sheet # <<>>
        /\ systemHealth' = [systemHealth EXCEPT !.consecutiveFailures = n,
                                                !.lastSuccessfulGoogleSheetsCall = TRUE]
        /\ loc' = [loc EXCEPT ![p].leads = <<>>]
        /\ IF ~AlertDue(n)
           THEN pc' = [pc EXCEPT ![p] = "loadSent"] /\ cyc' = cyc
           ELSE IF status # "ready"
           THEN /\ pc' = [pc EXCEPT ![p] = "loadSent"]
                /\ cyc' = [cyc EXCEPT ![p].alert = "skipped"]
           ELSE /\ pc' = [pc EXCEPT ![p] = "alert"]
                /\ cyc' = [cyc EXCEPT ![p].alert = "tried"]
        /\ hist' = [hist EXCEPT !.failRun = @ + 1]
        /\ UNCHANGED <<sheet, fileVars, ctlVars, isRunning, lockVars, logVars, checkPc, seenVars>>

InitConv == Init /\ sheet \in HealthSheets /\ mainLog = NoFile

NextConv == Next \/ \E p \in Procs : FetchConvFail2(p)

\* part_002 with fetches that fail in the conversion of the rows
SpecConv == InitConv /\ [][NextConv]_vars

(***************************************************************************)
(* Properties of part_002                                                  *)
(***************************************************************************)
\* the normalized phones of a lead list
LeadKeys(leads) == {normalizePhone2(leads[j].phone) : j \in 1..Len(leads)}

\* the phones that have a row of the given status among rows
PhonesWith(rows, st) == {rows[j].phone : j \in {n \in 1..Len(rows) : rows[n].status = st}}

\* the phones that have a row among rows
RowPhones(rows) == {rows[j].phone : j \in 1..Len(rows)}

\* C1, as stated: a cycle that begins right after a cycle over the same lead
\* list has run to completion (and its log rows have been written) calls
\* sendMessage for no welcome and for no catalog, whatever the outcome of the
\* earlier cycle's sends.
C1_SecondCycleSendsNothing ==
    \A p \in Procs :
        cyc[p].afterComplete => cyc[p].triedW \cup cyc[p].triedC = {}

\* C1, amended: a cycle that begins right after a completed cycle over the
\* same lead list, every dispatch of which left a row in the main log (the
\* welcome was delivered, or the dispatch failed and the failure was logged),
\* calls sendMessage for no welcome and for no catalog.
C1_SecondCycleSendsNothingAfterLoggedCycle ==
    \A p \in Procs :
        cyc[p].afterComplete /\ cyc[p].afterClean
            => cyc[p].triedW \cup cyc[p].triedC = {}

\* a second cycle has run to its end over two leads the first one delivered to
C1_Witness ==
    \E p \in Procs :
        /\ cyc[p].afterComplete /\ cyc[p].afterClean
        /\ cyc[p].fetched /\ cyc[p].result = "complete"
        /\ Len(loc[p].leads) = 2
        /\ \A k \in LeadKeys(loc[p].leads) : hist.welcomeOk[k] > 0

\* the invocations that are past the entry guard
Active == {p \in Procs : pc[p] # "idle"}

\* C3: at most one processLeads invocation is past its entry guard, the guard
\* flag is set exactly while one is, and an invocation made by /start or by
\* the timer while one is in flight leaves the invocations, both log files,
\* the log queue, the locks and the guard flag as they were.
C3_OnlyOneCycle ==
    [][/\ Cardinality(Active') <= 1
       /\ isRunning' = (Active' # {})
       /\ (isRunning /\ (Start2 \/ Tick2))
            => /\ UNCHANGED <<procVars, fileVars, logVars, lockVars>>
               /\ isRunning']_vars

\* an invocation has been turned away while a cycle is at a send
C3_Witness ==
    /\ hist.skipped
    /\ isRunning
    /\ \E p \in Procs : pc[p] \in {"wSend", "cSend"}

\* the cycle of p is the first of a process that found the main log holding
\* one Sent row for P and no other row, over leads that contain P and Q
C4_Case(p) ==
    /\ cyc[p].fresh /\ cyc[p].fetched
    /\ cyc[p].rows0 = <<Row(KeyP, "Sent")>>
    /\ {KeyP, KeyQ} \subseteq LeadKeys(loc[p].leads)

\* C4: the first cycle of a fresh process that finds the main log holding one
\* Sent row for P and none for Q, over leads containing P and Q, calls
\* sendMessage for no welcome to P, and, when it has run to its end
\* undisturbed (no failure, session drop, stop or crash), has called it for
\* the welcome to Q.
C4_FreshCycleSendsOnlyToQ ==
    \A p \in Procs :
        C4_Case(p) =>
            /\ KeyP \notin cyc[p].triedW
            /\ (cyc[p].result = "complete" /\ hist.faults = 0)
                 => /\ KeyQ \in cyc[p].triedW
                    /\ hist.welcomeOk[KeyQ] = 1 /\ hist.welcomeOk[KeyP] = 0

C4_Witness ==
    \E p \in Procs :
        /\ C4_Case(p)
        /\ cyc[p].result = "complete" /\ hist.faults = 0
        /\ KeyQ \in cyc[p].triedW

\* C5: across a crash and restart no phone is delivered the welcome message
\* again, and every phone the welcome was delivered to before the crash has a
\* row in the main log.
C5_NoLossNoResendAcrossRestart ==
    /\ hist.resent = {}
    /\ hist.welcomeOkBoot \subseteq RowPhones(mainLog.rows)

\* the phones whose rows among rows are all Failed rows, and that have one
FailedOnly(rows) ==
    PhonesWith(rows, "Failed") \ (PhonesWith(rows, "Sent") \cup PhonesWith(rows, "Invalid"))

\* C6: a cycle that runs to completion dispatches every lead whose only rows
\* in the main log it loaded are Failed rows.
C6_FailedIsRetried ==
    \A p \in Procs :
        cyc[p].fetched /\ cyc[p].result = "complete"
            => (FailedOnly(cyc[p].rows0) \cap LeadKeys(loc[p].leads)) \subseteq cyc[p].disp

\* the row the latest safeLogMessage('main', ...) call queued
LastQueuedMain ==
    IF logQueue.main # <<>> THEN logQueue.main[Len(logQueue.main)] ELSE logEntry.main

\* the step is the failure handler of p's cycle
HandlerStep(p) == cyc'[p].n = cyc[p].n /\ cyc'[p].failed # cyc[p].failed

\* the lead whose dispatch the step's handler caught
FailedLead(p) == loc'[p].leads[CHOOSE j \in cyc'[p].failed \ cyc[p].failed : TRUE]

\* C7, as stated: the row the failure handler queues for the main log has
\* status Invalid if the error's text contains "not registered", and Failed
\* for every other error.
C7_InvalidIffNotRegistered ==
    [][\A p \in Procs :
         HandlerStep(p) =>
           LastQueuedMain'.status =
             IF Includes(toLowerCase(cyc'[p].error), <<"not", "registered">>)
             THEN "Invalid" ELSE "Failed"]_vars

\* C7, amended: the row the failure handler queues for the main log is a row
\* for the failing lead's phone, with status Invalid if the error's text, in
\* lower case, contains "not registered", "invalid number" or "incorrect
\* number", and Failed for every other error.
C7_InvalidIffOneOfThreePhrases ==
    [][\A p \in Procs :
         HandlerStep(p) =>
           /\ LastQueuedMain'.phone = normalizePhone2(FailedLead(p).phone)
           /\ LastQueuedMain'.status =
                IF \E phrase \in {<<"not", "registered">>, <<"invalid", "number">>,
                                  <<"incorrect", "number">>} :
                     Includes(toLowerCase(cyc'[p].error), phrase)
                THEN "Invalid" ELSE "Failed"]_vars

\* a dispatch has failed with "Invalid number" and its Invalid row is in the file
C7_Witness ==
    \E p \in Procs :
        /\ cyc[p].error = ErrInvalidNumber
        /\ \E j \in cyc[p].failed :
             normalizePhone2(loc[p].leads[j].phone) \in PhonesWith(mainLog.rows, "Invalid")

\* C8: a cycle that loaded a main log holding an Invalid row for a phone
\* neither dispatches to that phone nor calls sendMessage for it.
C8_InvalidIsTerminal ==
    \A p \in Procs :
        PhonesWith(cyc[p].rows0, "Invalid")
            \cap (cyc[p].disp \cup cyc[p].triedW \cup cyc[p].triedC) = {}

\* a cycle has run to its end over a lead whose Invalid row an earlier cycle
\* of the same process wrote
C8_Witness ==
    \E p \in Procs :
        /\ cyc[p].fetched /\ cyc[p].result = "complete" /\ cyc[p].n = 2
        /\ hist.crashes = 0
        /\ KeyQ \in PhonesWith(cyc[p].rows0, "Invalid") \cap LeadKeys(loc[p].leads)

\* the phones the cycle of p has considered: those its sent set held when it
\* was loaded and those it dispatched
Considered(p) == RowPhones(cyc[p].rows0) \cup cyc[p].disp

C10_OfflineLeadsGetNoRow ==
    \A p \in Procs :
        cyc[p].disp \ cyc[p].offline # {}
            => cyc[p].offline \cap RowPhones(mainLog.rows) = {}

\* the phones with a Failed or an Invalid row among rows
FailurePhones(rows) == PhonesWith(rows, "Failed") \cup PhonesWith(rows, "Invalid")

\* the welcome to k was delivered and logged, the catalog send of the same
\* dispatch failed (the handler's row is in the log), and the catalog was
\* never delivered to k: all of it before the cycle of p loaded the main log
WelcomeOnly(p, k) ==
    /\ cyc[p].fetched /\ k \in LeadKeys(loc[p].leads)
    /\ hist.welcomeOk[k] > 0 /\ hist.catalogOk[k] = 0
    /\ k \in PhonesWith(cyc[p].rows0, "Sent") \cap FailurePhones(cyc[p].rows0)

\* C11: a later cycle that runs to completion over a lead whose welcome was
\* delivered and logged and whose catalog send failed calls sendMessage for
\* the catalog to that phone, and not for the welcome.
C11_CatalogIsRetried ==
    \A p \in Procs : \A k \in Keys :
        WelcomeOnly(p, k) /\ cyc[p].result = "complete"
            => k \in cyc[p].triedC /\ k \notin cyc[p].triedW

\* the cycle of p began after a completed cycle, with every row logged until
\* then written; when it loaded the logs, the catalog log held a Sent row for
\* k, the catalog having been delivered to k, and the main log held no row for
\* k (the welcome send of that dispatch had failed)
CatalogOnly(p, k) ==
    /\ cyc[p].afterComplete
    /\ cyc[p].fetched /\ k \in LeadKeys(loc[p].leads)
    /\ hist.catalogOk[k] > 0
    /\ k \in loc[p].catalogSentPhones
    /\ k \notin RowPhones(cyc[p].rows0)

\* C12: a later cycle that runs to completion, with the session ready at its
\* dispatches, over a lead whose catalog was delivered and logged while its
\* welcome failed (so that the main log has no row for it) calls sendMessage
\* for the welcome to that phone, and not for the catalog.
C12_WelcomeIsRetried ==
    \A p \in Procs : \A k \in Keys :
        CatalogOnly(p, k) /\ cyc[p].result = "complete" /\ k \notin cyc[p].offline
            => k \in cyc[p].triedW /\ k \notin cyc[p].triedC

\* the first cycle's welcome send to k failed and its catalog was delivered
\* and logged; the second cycle has delivered the welcome to k
C12_Witness ==
    \E p \in Procs : \E k \in Keys :
        /\ CatalogOnly(p, k) /\ cyc[p].result = "complete"
        /\ cyc[p].n = 2 /\ hist.crashes = 0
        /\ hist.catalogOk[k] = 1 /\ hist.welcomeOk[k] = 1
        /\ k \in cyc[p].triedW

\* the phone of the lead the cycle of p is at
LeadKey(p) == normalizePhone2(loc[p].leads[loc[p].i].phone)

\* the row the latest safeLogMessage('catalog', ...) call queued
LastQueuedCatalog ==
    IF logQueue.catalog # <<>> THEN logQueue.catalog[Len(logQueue.catalog)]
    ELSE logEntry.catalog

\* the step is a step of p's cycle (and not a crash)
CycleStep(p) == pc'[p] # pc[p] /\ hist'.crashes = hist.crashes

\* C17: POST /stop leaves a dispatch in flight as it is; while processing is
\* false the dispatch goes on as it would otherwise (a delivered welcome or
\* catalog gets its row queued in the same step, and the dispatch ends at the
\* wait after the lead with both locks of the phone released); the check after
\* that wait then ends the cycle without a further dispatch and clears
\* isRunning.
C17_StopLetsDispatchFinish ==
    [][/\ Stop => UNCHANGED <<procVars, lockVars, logVars, fileVars, isRunning>>
       /\ \A p \in Procs :
            (~processing /\ MidDispatch(p) /\ CycleStep(p)) =>
               /\ pc'[p] = "delay" \/ MidDispatch(p)'
               /\ cyc'[p].disp = cyc[p].disp /\ isRunning'
               /\ hist'.welcomeOk[LeadKey(p)] > hist.welcomeOk[LeadKey(p)]
                    => LastQueuedMain' = Row(LeadKey(p), "Sent")
               /\ hist'.catalogOk[LeadKey(p)] > hist.catalogOk[LeadKey(p)]
                    => LastQueuedCatalog' = Row(LeadKey(p), "Sent")
               /\ pc'[p] = "delay"
                    => LeadKey(p) \notin (processingLocks' \cup messageSendingLocks')
       /\ \A p \in Procs :
            (~processing /\ pc[p] = "delay" /\ CycleStep(p)) =>
               /\ pc'[p] = "idle" /\ ~isRunning'
               /\ cyc'[p].disp = cyc[p].disp
               /\ cyc'[p].triedW = cyc[p].triedW /\ cyc'[p].triedC = cyc[p].triedC
               /\ processingLocks' = {}]_vars

\* POST /stop came while the first of two leads was being dispatched: the
\* welcome and the catalog were delivered to it and their rows written, and
\* the cycle has ended without dispatching the second lead
C17_Witness ==
    \E p \in Procs :
        /\ hist.midStop
        /\ ~processing /\ ~isRunning /\ hist.crashes = 0
        /\ cyc[p].result = "stopped" /\ loc[p].i = 1 /\ Len(loc[p].leads) = 2
        /\ cyc[p].disp = {LeadKey(p)}
        /\ LeadKey(p) \in PhonesWith(mainLog.rows, "Sent")
                            \cap PhonesWith(catalogLog.rows, "Sent")
        /\ LeadKeys(loc[p].leads) # {LeadKey(p)}

\* the step is the return of fetchLeads in p's cycle
FetchStep(p) == pc[p] = "fetch" /\ CycleStep(p)

\* the cycle of p is past a fetch that failed
AfterFailedFetch(p) == pc[p] \in {"alert", "loadSent", "loadCat"} /\ ~cyc[p].fetched

C19_AlertFromThirdFailureOn ==
    [][\A p \in Procs :
         FetchStep(p) =>
           IF cyc'[p].fetched
           THEN /\ systemHealth'.consecutiveFailures = 0
                /\ cyc'[p].alert = "none" /\ pc'[p] # "alert"
           ELSE /\ systemHealth'.consecutiveFailures
                     = systemHealth.consecutiveFailures + 1
                /\ (cyc'[p].alert # "none")
                     <=> (systemHealth'.consecutiveFailures >= 3)
                /\ (pc'[p] = "alert") => cyc'[p].alert = "tried"]_vars

\* the alert of a fourth consecutive failed fetch has been sent
C19_Witness ==
    \E p \in Procs :
        cyc[p].alert = "sent" /\ systemHealth.consecutiveFailures = 4

\* a failed fetch after two failures and a success counts as the first
C19_WitnessReset ==
    \E p \in Procs :
        /\ cyc[p].n = 4 /\ ~cyc[p].fetched /\ pc[p] = "loadSent"
        /\ systemHealth.consecutiveFailures = 1 /\ hist.crashes = 0

\* C20: a checkSystemHealth call made while isOnline is set and the session
\* is not ready clears isOnline and calls client.sendMessage for the alert to
\* the admin; a call made while isOnline is clear and the session is not
\* ready calls it not and leaves isOnline clear.
C20_OfflineTransitionAlertsOnce ==
    [][/\ (CheckSystemHealth /\ systemHealth.isOnline /\ status # "ready")
            => ~systemHealth'.isOnline /\ checkPc' = "lostAlert"
       /\ (CheckSystemHealth /\ ~systemHealth.isOnline /\ status # "ready")
            => ~systemHealth'.isOnline /\ checkPc' # "lostAlert"]_vars

\* C21: when the session has left the ready state and is ready again, the
\* process running on, client.sendMessage is eventually called for the
\* recovery notification.
C21_RecoveryIsNotified ==
    (hist.recovery = "due" /\ status = "ready") ~> (hist.recovery = "called")

Count(rows, phone, st) ==
    Cardinality({n \in 1..Len(rows) : rows[n].phone = phone /\ rows[n].status = st})

\* q began while p was in its send loops, and loaded its sent set at a moment
\* when every row logged until then had reached the file
Overlap(p, q) == cyc[p].n # 0 /\ cyc[q].with = cyc[p].n

\* C2: two processLeads invocations, the later of which begins while the
\* earlier is in its send loops, deliver the welcome message
\* to no common phone, and the main log then holds at most one Sent row for
\* each phone.
C2_OverlapSendsOnce ==
    \A p \in Procs : \A q \in Procs \ {p} :
        Overlap(p, q) =>
            /\ cyc[p].okW \cap cyc[q].okW = {}
            /\ \A k \in Keys : Count(mainLog.rows, k, "Sent") <= 1

\* C25: over a sheet that names no phone twice, no phone is sent the catalog
\* document more than once.
C25_CatalogDocumentOnce ==
    (\A i, j \in 1..Len(sheet) :
        normalizePhone0(sheet[i].phone) = normalizePhone0(sheet[j].phone) => i = j)
      => \A k \in Keys : hist.catalogOk[k] <= 1

(***************************************************************************)
(* Properties of the read receipts of part_000                             *)
(***************************************************************************)
\* the call in slot u is past its scan and has found a row to rewrite
Rewriting(u) == ackPc[u] \in {"write", "leads", "notify"}

SentRowsOf(rows, k) ==
    {n \in 1..Len(rows) : normalizePhone0(rows[n].phone) = k /\ rows[n].status = "Sent"}

\* the last of a non-empty set of row numbers
LastOf(S) == CHOOSE n \in S : \A m \in S : m <= n

\* C14: when updateLogWithSeenStatus is about to write the file, the rows it
\* writes are those of the file with the last Sent row of the phone, and no
\* other row, rewritten to Seen.
C14_RewritesMostRecentSent ==
    \A u \in Acks :
        ackPc[u] = "write" =>
            LET S == SentRowsOf(mainLog.rows, ackLoc[u].phone)
            IN  /\ S # {}
                /\ ackLoc[u].newRows =
                       [mainLog.rows EXCEPT ![LastOf(S)].status = "Seen"]

\* C15: the main log holds at most one Seen row for any normalized phone.
C15_AtMostOneSeenRow ==
    \A k \in Keys :
        Cardinality({n \in 1..Len(mainLog.rows) :
                        /\ normalizePhone0(mainLog.rows[n].phone) = k
                        /\ mainLog.rows[n].status = "Seen"}) <= 1

\* after POST /reset has cleared seenNotifications, a further receipt for a
\* phone with a Seen row and a Sent row in the log has the file lock
C15_Witness ==
    \E u \in Acks :
        /\ ackPc[u] = "read"
        /\ seenHist.resets > 0
        /\ ackLoc[u].phone \notin seenNotifications
        /\ Count(mainLog.rows, ackLoc[u].phone, "Seen") = 1
        /\ SentRowsOf(mainLog.rows, ackLoc[u].phone) # {}

MainLogWriters ==
    {u \in Acks : ackPc[u] \in {"read", "write", "leads", "notify"}}
      \cup (IF logTask.main = "io" THEN {"queue"} ELSE {})

\* C28: at most one writer of the main log is between taking and releasing
\* fileLocks.mainLog, and the lock is set while one is; the rows a Seen
\* rewrite is about to write are the rows the file holds, one of them with
\* its status changed, so that no row appended meanwhile can be lost.
C28_OneWriterOfMainLog ==
    /\ Cardinality(MainLogWriters) <= 1
    /\ MainLogWriters # {} => fileLocks.mainLog
    /\ \A u \in Acks :
         ackPc[u] = "write" =>
            /\ Len(ackLoc[u].newRows) = Len(mainLog.rows)
            /\ \A n \in 1..Len(mainLog.rows) :
                  ackLoc[u].newRows[n].phone = mainLog.rows[n].phone

\* a queued append and a second receipt wait while a Seen rewrite holds the
\* file lock
C28_Witness ==
    /\ logTask.main = "wait"
    /\ \E u, v \in Acks : ackPc[u] = "write" /\ ackPc[v] = "wait"

(***************************************************************************)
(* Properties of part_002's log queue                                      *)
(***************************************************************************)
\* the entry a section has taken from its queue and not yet left
InFlight(t) == IF logEntry[t] = NoEntry THEN <<>> ELSE <<logEntry[t]>>

\* the rows of a log file followed by the entries that wait to be written
RowsAndPending(t) == LogFile(t).rows \o InFlight(t) \o logQueue[t]

\* C29: the rows of a log file, followed by the entry being written and the
\* entries in the queue, are the rows the process found followed by the
\* entries safeLogMessage pushed, in the order of the pushes: a failed entry
\* goes back ahead of the entries pushed after it, none is dropped and none
\* is written twice. (A line appended after a last byte that is no newline
\* continues the last row; it is still the first line written.)
C29_RowsInEnqueueOrder ==
    \A t \in LogTypes :
       \E f \in LogBootFiles :
          RowsAndPending(t) =
             IF hist.logRun[t].merged
             THEN RawAppend(f, Head(hist.logRun[t].enqueued)).rows
                    \o Tail(hist.logRun[t].enqueued)
             ELSE f.rows \o hist.logRun[t].enqueued

\* a main-log entry failed while another waited behind it, and both rows are
\* in the file
C29_Witness ==
    /\ hist.logRun["main"].requeued
    /\ Len(hist.logRun["main"].enqueued) = 2
    /\ hist.logRun["main"].enqueued[1] # hist.logRun["main"].enqueued[2]
    /\ logTask["main"] = "idle" /\ logQueue["main"] = <<>>
    /\ ~hist.logRun["main"].merged

\* an entry of a log waits in its queue or is being written
LogPending(t) == InFlight(t) \o logQueue[t] # <<>>

\* the writes of a log file settle and do not fail for ever
LogWritesSettle(t) == WF_vars(PrepareLog(t)) /\ WF_vars(AppendLog(t))

\* C30: the two queues are independent: when the writes of the catalog log
\* settle, an entry of the catalog queue is written whatever the main log's
\* writes do (never settling, or failing and being put back), and the same
\* with the two logs exchanged.
C30_QueuesIndependent ==
    /\ LogWritesSettle("catalog") => (LogPending("catalog") ~> ~LogPending("catalog"))
    /\ LogWritesSettle("main") => (LogPending("main") ~> ~LogPending("main"))

\* a catalog entry pushed while a main-log entry, put back after a failure, is
\* still being written has its row in the file
C30_Witness ==
    /\ logTask["main"] # "idle"
    /\ hist.faults > 0
    /\ hist.logRun["main"].enqueued # <<>>
    /\ RowsAndPending("main") # LogFile("main").rows
    /\ Len(LogFile("main").rows) + Len(hist.logRun["main"].enqueued)
         = Len(RowsAndPending("main"))
    /\ hist.logRun["catalog"].enqueued # <<>>
    /\ ~LogPending("catalog")

(***************************************************************************)
(* Properties of normalizePhone                                            *)
(***************************************************************************)
\* the keys computed for the sheet's lead are those of the set
KeysAmong(S) == processingLocks \subseteq S /\ processingSeenStatus \subseteq S

\* C23 (as stated): every form of the subscriber, the scientific notation
\* without a sign in its exponent included, has the key 919876543210 in both
\* revisions.
C23_AllFormsOneKey ==
    sheet[1].phone \in SubscriberForms => KeysAmong({KeyP})

\* C23 (amended): the 10-digit form, the form with a leading 0, the 12-digit
\* form with and without a leading + and the scientific notation whose
\* exponent is written E+ or e+ have the key 919876543210 in both revisions.
C23_SignedFormsOneKey ==
    sheet[1].phone \in SignedForms => KeysAmong({KeyP})

\* both revisions have computed the key of the scientific notation
C23_Witness ==
    /\ sheet[1].phone = SciPlus
    /\ processingLocks = {KeyP} /\ processingSeenStatus = {KeyP}

\* C24: the key part_002 computes consists of decimal digits only.
C24_KeyIsDigitsOnly ==
    \A key \in processingLocks : \A n \in 1..Len(key) : key[n] \in Digits

(***************************************************************************)
(* Properties of processingLocks                                           *)
(***************************************************************************)
\* C26: in part_002 every phone in processingLocks is the phone of the lead
\* some cycle is dispatching; when no cycle is running the set is empty.
C26_LocksOnlyWhileDispatching2 ==
    /\ \A k \in processingLocks :
         \E p \in Procs :
            MidDispatch(p) /\ normalizePhone2(loc[p].leads[loc[p].i].phone) = k
    /\ (\A p \in Procs : pc[p] = "idle") => processingLocks = {}

\* a cycle has ended on an error thrown in its failure handler
C26_Witness ==
    \E p \in Procs :
        /\ pc[p] = "idle" /\ cyc[p].result = "error" /\ cyc[p].disp # {}
        /\ processingLocks = {}

\* C27: in part_000 every phone in processingLocks is the phone of the lead
\* some cycle is dispatching; no phone stays locked after its dispatch ended.
C27_LocksOnlyWhileDispatching0 ==
    \A k \in processingLocks :
        \E p \in Procs :
            /\ pc[p] \in {"wSend", "cSend", "cPause", "lSend"}
            /\ normalizePhone0(loc[p].leads[loc[p].i].phone) = k


(***************************************************************************)
(* Properties of part_002's dispatch and its log                           *)
(***************************************************************************)
\* C31: when the promise of logSentMessage has resolved (the dispatch is at
\* the wait that follows the welcome), the Sent row is in the main log, so
\* that getSentPhones, called then, has the phone.
C31_RowPresentWhenLogResolves ==
    \A p \in Procs :
       pc[p] = "pause" /\ loc[p].welcomeSent =>
          normalizePhone2(loc[p].leads[loc[p].i].phone) \in getSentPhones2(mainLog)


\* cycle p takes a lead of its list for dispatch in this step
TakesLead(p) ==
    /\ pc[p] # "idle"
    /\ cyc'[p].n = cyc[p].n
    /\ loc'[p].i # loc[p].i
    /\ loc'[p].i \in 1..Len(loc'[p].leads)

\* C32: a cycle takes a lead for dispatch only when it has dispatched no
\* lead of the same key before, whether that dispatch succeeded or failed.
C32_OneDispatchPerKey ==
    [][\A p \in Procs :
         TakesLead(p) =>
            normalizePhone2(loc'[p].leads[loc'[p].i].phone) \notin cyc[p].disp]_vars

\* a cycle over two leads of one key has ended after one dispatch, with the
\* second lead passed over
C32_Witness ==
    \E p \in Procs :
       /\ Len(loc[p].leads) = 2
       /\ loc[p].leads[1].phone # loc[p].leads[2].phone
       /\ normalizePhone2(loc[p].leads[1].phone) = normalizePhone2(loc[p].leads[2].phone)
       /\ cyc[p].disp = {normalizePhone2(loc[p].leads[1].phone)}
       /\ cyc[p].result = "complete"
       /\ loc[p].i = 3


(***************************************************************************)
(* Properties of part_000's second pass                                    *)
(***************************************************************************)
\* the keys with a row of status Sent or Seen in the main log
WelcomedInLog ==
    {normalizePhone0(ph) : ph \in LoggedPhones(mainLog, "Sent") \cup LoggedPhones(mainLog, "Seen")}

\* C33: the second pass sends a catalog only to a phone the welcome message
\* was sent to: one with a Sent or Seen row, or one whose welcome send
\* succeeded in this cycle or earlier in this behaviour.
C33_CatalogOnlyAfterWelcome ==
    \A p \in Procs :
       pc[p] = "cSend" =>
          LET key == normalizePhone0(loc[p].leads[loc[p].i].phone)
          IN  key \in WelcomedInLog \/ key \in cyc[p].okW \/ hist.welcomeOk[key] > 0


(***************************************************************************)
(* Properties of fetchLeads' failure counter                               *)
(***************************************************************************)
\* C34: systemHealth.consecutiveFailures is the number of fetchLeads calls that
\* ended in the catch block since the last call that returned normally (or
\* since the process started), whatever made them fail.
C34_CounterCountsFailureRun == systemHealth.consecutiveFailures = hist.failRun


(***************************************************************************)
(* Properties of the 'Customer Viewed Message' notification of part_000    *)
(***************************************************************************)
\* the updateLogWithSeenStatus calls that are in sendNotification for phone k
Notifying(k) == {u \in Acks : ackPc[u] = "notify" /\ ackLoc[u].phone = k}

\* the keys of the sheet's leads
SheetKeys0 == {normalizePhone0(sheet[j].phone) : j \in 1..Len(sheet)}

\* C35: sendNotification is called at most once for a phone, over receipts,
\* POST /reset and restarts, and only by a call that rewrote a Sent row of the
\* phone to Seen, for a phone that is among the leads.
C35_OneNotificationPerPhone ==
    \A k \in Keys :
       /\ seenHist.notifications[k] + Cardinality(Notifying(k)) <= 1
       /\ seenHist.notifications[k] + Cardinality(Notifying(k)) <= seenHist.rewrites[k]
       /\ Notifying(k) # {} \/ seenHist.notifications[k] > 0 => k \in SheetKeys0

\* the phone of the sheet has been notified of, a row of a phone that is not
\* in the sheet has been rewritten without a notification, and a POST /reset
\* has cleared seenNotifications since
C35_Witness ==
    /\ seenHist.notifications[KeyQ] = 1
    /\ seenHist.rewrites[KeyP] = 1
    /\ seenHist.notifications[KeyP] = 0
    /\ seenHist.resets > 0
    /\ \A u \in Acks : ackPc[u] = "idle"


\* the keys with a Seen row in the main log after the step
SeenInLogAfter == {normalizePhone0(ph) : ph \in LoggedPhones(mainLog', "Seen")}

\* C36: an updateLogWithSeenStatus call for a phone whose welcome send has
\* completed leaves a Seen row of the phone in the main log when it ends, so
\* that the row is there also when no further receipt arrives.
C36_ReceiptLeavesSeenRow ==
    [][\A u \in Acks :
         /\ ackPc[u] # "idle" /\ ackPc'[u] = "idle"
         /\ hist.welcomeOk[ackLoc[u].phone] > 0
         => ackLoc[u].phone \in SeenInLogAfter]_vars


\* C37: part_000's normalizePhone is idempotent: the key it returns for a text
\* is the key it returns for that key, as when getSentPhones normalizes the
\* phone that safeLogMessage wrote into a row.
C37_NormalizeIdempotent0 ==
    \A k \in processingSeenStatus : normalizePhone0(k) = k


\* the busy flag of a queue
Busy(t) == IF t = "main" THEN logQueue.isProcessing ELSE logQueue.isCatalogProcessing

\* C38: every entry safeLogMessage pushed is written in the end when the file
\* operations settle, failed writes being retried by the queue itself; and
\* between steps no queue holds an entry while its busy flag is clear.
C38_EveryEntryWritten ==
    /\ [](\A t \in LogTypes : logQueue[t] # <<>> => Busy(t) /\ logTask[t] # "idle")
    /\ \A t \in LogTypes :
          (logQueue[t] # <<>> \/ logEntry[t] # NoEntry)
             ~> (logQueue[t] = <<>> /\ logEntry[t] = NoEntry)

\* two catalog entries are rows of the catalog log after one of them was put
\* back by a failed write while the other waited
C38_Witness ==
    /\ hist.logRun["catalog"].requeued
    /\ Len(hist.logRun["catalog"].enqueued) = 2
    /\ ~LogPending("catalog")
    /\ ~hist.logRun["catalog"].merged
    /\ Len(LogFile("catalog").rows) >= 2


(***************************************************************************)
(* Properties of updateLogWithSeenStatus' effect on the main log           *)
(***************************************************************************)
\* the rows new are the rows old with one Sent row of k turned into Seen
OneRowSeen(old, new, k) ==
    \E n \in SentRowsOf(old, k) : new = [old EXCEPT ![n].status = "Seen"]

\* no updateLogWithSeenStatus call and no queue section is past its wait loop
NoLogHolder(pcs, task) ==
    /\ \A u \in Acks : pcs[u] \in {"idle", "wait"}
    /\ task.main # "io"

\* C39: the write of updateLogWithSeenStatus(P) leaves the file as it was but
\* for one Sent row of P, which becomes a Seen row; a step of a call that is
\* not that write leaves the file alone; and once no call is past its wait
\* loop the file lock is clear and processingSeenStatus is empty, however the
\* calls ended.
C39_SeenUpdateFrame ==
    [][/\ \A k \in Keys :
            seenHist'.rewrites[k] # seenHist.rewrites[k]
               => /\ mainLog'.exists /\ mainLog.exists
                  /\ OneRowSeen(mainLog.rows, mainLog'.rows, k)
       /\ ackPc' # ackPc /\ seenHist'.rewrites = seenHist.rewrites
            => mainLog' = mainLog
       /\ NoLogHolder(ackPc', logTask')
            => ~fileLocks'.mainLog /\ processingSeenStatus' = {}]_vars

\* a call has rewritten the lead's row beside the row of another phone, a
\* write or a fetch has failed, and no call is in progress
C39_Witness ==
    /\ mainLog.rows = <<Row(KeyP, "Sent"), Row(KeyQ, "Seen")>>
    /\ seenHist.rewrites[KeyQ] = 1
    /\ hist.faults > 0 /\ hist.crashes = 0
    /\ \A u \in Acks : ackPc[u] = "idle"
    /\ ~fileLocks.mainLog /\ processingSeenStatus = {}


(***************************************************************************)
(* Properties of part_002's in-memory locks                                *)
(***************************************************************************)
\* the positions of a cycle from which the top of its for loop is run next
LoopEntry == {"loadCat", "delay"}

\* C40: processingLocks and messageSendingLocks hold at most one phone; when
\* a cycle is about to run the top of its loop both are empty, so that the
\* 'already being processed' skip finds no phone; and a lead taken while the
\* client is ready enters the body of sendWelcomeWithCatalog with both locks
\* holding its phone alone, never the clash-prevention return.
C40_LocksHoldOnePhone ==
    [][/\ Cardinality(processingLocks') <= 1
       /\ Cardinality(messageSendingLocks') <= 1
       /\ \A p \in Procs :
            /\ pc[p] \in LoopEntry => processingLocks = {} /\ messageSendingLocks = {}
            /\ TakesLead(p) /\ status = "ready"
                 => /\ pc'[p] = "dsSent"
                    /\ processingLocks' = {normalizePhone2(loc'[p].leads[loc'[p].i].phone)}
                    /\ messageSendingLocks' = processingLocks']_vars

\* a cycle is sending the welcome message of its second lead, having
\* dispatched a lead of another phone before
C40_Witness ==
    \E p \in Procs :
       /\ pc[p] = "wSend" /\ loc[p].i = 2
       /\ normalizePhone2(loc[p].leads[1].phone) \in cyc[p].disp
       /\ normalizePhone2(loc[p].leads[1].phone) # normalizePhone2(loc[p].leads[2].phone)
       /\ processingLocks = {normalizePhone2(loc[p].leads[2].phone)}
       /\ messageSendingLocks = processingLocks

====
